---- MODULE Spec2Model ----
(***************************************************************************)
(* Model of the event-sourced bookkeeping write model of finance_rust:     *)
(* the in-memory event store (cqrs/src/events/store/in_memory_store.rs),   *)
(* the Ledger / LedgerResolver aggregates (cqrs/src/write/ledger.rs) and   *)
(* the command handler run by the mailbox task                             *)
(* (message_bus/src/command_handler/mod.rs, message_bus/src/lib.rs).       *)
(***************************************************************************)
EXTENDS Integers, Sequences, FiniteSets, TLC

(***************************************************************************)
(* Bounds of the model.                                                    *)
(***************************************************************************)
\* longest event log explored
MaxLog == 4
\* longest leg list carried by a Transaction message
MaxLegs == 2
\* longest log explored when the store is driven directly
MaxStore == 4

(***************************************************************************)
(* u32 amounts.  An amount is kept as two 16-bit limbs so that the full    *)
(* 32-bit width, and with it the overflow of checked_add, is represented.  *)
(***************************************************************************)
LimbBase == 65536

U32(h, l) == [hi |-> h, lo |-> l]

U32Zero == U32(0, 0)

U32Max == U32(LimbBase - 1, LimbBase - 1)

\* an addition that wraps around at 2^32
wrapping_add(a, b) ==
    LET lo == a.lo + b.lo
        hi == a.hi + b.hi + (lo \div LimbBase)
    IN  [some |-> TRUE, val |-> U32(hi % LimbBase, lo % LimbBase)]

\* u32::checked_add: None on overflow, Some(sum) otherwise
checked_add(a, b) ==
    LET lo == a.lo + b.lo
        hi == a.hi + b.hi + (lo \div LimbBase)
    IN  IF hi >= LimbBase
        THEN [some |-> FALSE]
        ELSE [some |-> TRUE, val |-> U32(hi, lo % LimbBase)]

(***************************************************************************)
(* Input values.                                                           *)
(***************************************************************************)
Ledgers == {"2014-q2", "2014-q3"}

Numbers == {101, 501}

\* (name, category) of an account
AccountDetails == {<<"Bank account", "Asset">>, <<"Groceries", "Expenses">>}

Amounts == {U32(0, 50), U32Max}

Descriptions == {"Grocery Shopping"}

Dates == {"2014-05-23"}

\* Balance::Debit(x) / Balance::Credit(x)
Debit(x) == [kind |-> "Debit", amount |-> x]

Credit(x) == [kind |-> "Credit", amount |-> x]

Balances == {Debit(x) : x \in Amounts} \cup {Credit(x) : x \in Amounts}

\* one leg of a transaction: (Number, Balance)
Legs == Numbers \X Balances

SeqsUpTo(S, n) == UNION {[1..k -> S] : k \in 0..n}

LegLists == SeqsUpTo(Legs, MaxLegs)

(***************************************************************************)
(* Events (cqrs/src/events/mod.rs).                                        *)
(***************************************************************************)
LedgerCreated(l) == [type |-> "LedgerCreated", id |-> l]

AccountOpened(l, n, nm, c) ==
    [type |-> "AccountOpened", ledger |-> l, id |-> n, name |-> nm, category |-> c]

AccountClosed(l, n) == [type |-> "AccountClosed", ledger |-> l, account |-> n]

Transaction(l, d, dt, legs) ==
    [type |-> "Transaction", ledger |-> l, description |-> d, date |-> dt,
     transactions |-> legs]

(***************************************************************************)
(* Results.                                                                *)
(***************************************************************************)
Ok(v) == [tag |-> "Ok", val |-> v]

\* Ok(())
OkUnit == [tag |-> "Ok"]

\* Ok(&history[index..]) returned by a &mut self method: the slice of new
\* events, together with the aggregate as the method left it
OkSelf(v, self) == [tag |-> "Ok", val |-> v, self |-> self]

Err(e) == [tag |-> "Err", err |-> e]

\* a panic unwinding out of the call
Panic == [tag |-> "Panic"]

\* AccountError
Opened(n) == [e |-> "Opened", number |-> n]

NotExist == [e |-> "NotExist"]

AccountLedgerDoesnExist == [e |-> "AccountError::LedgerDoesnExist"]

\* TransactionError
EmptyTransaction == [e |-> "EmptyTransaction"]

ImbalancedTranasactions == [e |-> "ImbalancedTranasactions"]

AccountDoesntExist == [e |-> "AccountDoesntExist"]

TransactionLedgerDoesnExist == [e |-> "TransactionError::LedgerDoesnExist"]

\* LedgerError
AlreadyExists == [e |-> "AlreadyExists"]

(***************************************************************************)
(* State.                                                                  *)
(***************************************************************************)
VARIABLES
    data,       \* InMemoryStore.data: the event log
    actor,      \* the mailbox task: "Idle", "Replied" or "Panicked"
    msg,        \* the message process_message was called with
    reply,      \* the result the handler handed to send_reply
    delivered,  \* what the reply destination of msg received
    call,       \* the last direct call on the store (append / evolve) or post
    ret,        \* what that call returned
    queue,      \* the messages buffered in the mpsc channel, oldest first
    handle,     \* the MailboxProcessor (the only Sender): "Held" or "Dropped"
    snapshot,   \* the events the handler in progress collected from all()
    cmds,       \* every message post accepted, in the order of acceptance
    origin,     \* for every event of data, the message that appended it
    suspended,  \* the messages of the posts waiting for a free slot, oldest first
    journal,    \* the Journal aggregate a caller holds
    projection, \* the Projection a caller holds
    books       \* a Chart and a Ledger that a caller drives side by side

vars == <<data, actor, msg, reply, delivered, call, ret,
          queue, handle, snapshot, cmds, origin, suspended, journal, projection, books>>

\* the channel, its sender and what is recorded about the posted messages
mailbox == <<queue, handle, snapshot, cmds, origin, suspended>>

NoMsg == [type |-> "NoMsg"]

NoReply == [tag |-> "NoReply"]

NoCall == [fn |-> "NoCall"]

\* a store whose extend puts the new events in front of the old ones
extend_prepend(d, events) == events \o d

\* impl Extend for InMemoryStore: self.data.extend(iter)
extend(d, events) == d \o events

(***************************************************************************)
(* LedgerResolver.                                                         *)
(***************************************************************************)
\* LedgerResolver::new: the set of ledgers with a LedgerCreated event
LedgerResolver_new(events) ==
    [ledgers |-> {events[i].id : i \in {j \in DOMAIN events : events[j].type = "LedgerCreated"}},
     history |-> events]

\* a create that never looks the id up in the known ledgers
LedgerResolver_create_unchecked(resolver, id) ==
    LET self == [ledgers |-> resolver.ledgers \cup {id},
                 history |-> Append(resolver.history, LedgerCreated(id))]
    IN  OkSelf(SubSeq(self.history, Len(self.history), Len(self.history)), self)

\* LedgerResolver::create
LedgerResolver_create(resolver, id) ==
    IF id \notin resolver.ledgers
    THEN LET self == [ledgers |-> resolver.ledgers \cup {id},
                      history |-> Append(resolver.history, LedgerCreated(id))]
         IN  OkSelf(SubSeq(self.history, Len(self.history), Len(self.history)), self)
    ELSE Err(AlreadyExists)

(***************************************************************************)
(* Ledger.                                                                 *)
(***************************************************************************)
\* a fold that forgets to enter opened accounts into the chart
RECURSIVE apply_no_insert(_, _, _)
apply_no_insert(id, chart, events) ==
    IF events = <<>>
    THEN chart
    ELSE LET ev == Head(events)
             next == IF ev.type = "AccountClosed" /\ ev.ledger = id
                     THEN chart \ {ev.account}
                     ELSE chart
         IN  apply_no_insert(id, next, Tail(events))

\* a fold that takes the events of every ledger for its own
RECURSIVE apply_any_ledger(_, _, _)
apply_any_ledger(id, chart, events) ==
    IF events = <<>>
    THEN chart
    ELSE LET ev == Head(events)
             next == IF ev.type = "AccountOpened"
                     THEN chart \cup {ev.id}
                     ELSE IF ev.type = "AccountClosed"
                     THEN chart \ {ev.account}
                     ELSE chart
         IN  apply_any_ledger(id, next, Tail(events))

\* Ledger::apply: fold the events of this ledger into the chart
RECURSIVE apply(_, _, _)
apply(id, chart, events) ==
    IF events = <<>>
    THEN chart
    ELSE LET ev == Head(events)
             next == IF ev.type = "AccountOpened" /\ ev.ledger = id
                     THEN chart \cup {ev.id}
                     ELSE IF ev.type = "AccountClosed" /\ ev.ledger = id
                     THEN chart \ {ev.account}
                     ELSE chart
         IN  apply(id, next, Tail(events))

None == [some |-> FALSE]

Some(v) == [some |-> TRUE, val |-> v]

\* a constructor that builds an empty ledger when the id was never created
Ledger_new_unchecked(id, events) ==
    Some([id |-> id, chart |-> apply(id, {}, events), history |-> events])

\* Ledger::new: None unless the log holds LedgerCreated{id}; the chart is
\* folded from the events at and after the first such event
Ledger_new(id, events) ==
    LET created == {i \in DOMAIN events :
                       events[i].type = "LedgerCreated" /\ events[i].id = id}
    IN  IF created = {}
        THEN None
        ELSE LET index == CHOOSE i \in created : \A j \in created : i <= j
             IN  Some([id |-> id,
                       chart |-> apply(id, {}, SubSeq(events, index, Len(events))),
                       history |-> events])

\* usize::saturating_sub
saturating_sub(a, b) == IF a >= b THEN a - b ELSE 0

\* an apply_new_events that pushes the events on the history and leaves the
\* chart as it was
apply_new_events_history_only(ledger, events) ==
    LET self == [id |-> ledger.id,
                 chart |-> ledger.chart,
                 history |-> ledger.history \o events]
        index == IF Len(self.history) >= Len(events)
                 THEN Len(self.history) - Len(events) ELSE 0
    IN  OkSelf(SubSeq(self.history, index + 1, Len(self.history)), self)

\* Ledger::apply_new_events: fold the issued events into the chart, push
\* them on the history and return the tail of the history that holds them
apply_new_events(ledger, events) ==
    LET self == [id |-> ledger.id,
                 chart |-> apply(ledger.id, ledger.chart, events),
                 history |-> ledger.history \o events]
        index == saturating_sub(Len(self.history), Len(events))
    IN  OkSelf(SubSeq(self.history, index + 1, Len(self.history)), self)

\* an open_account that takes an account for open only when id and name match
open_account_by_name(ledger, number, name, category) ==
    IF \A i \in DOMAIN ledger.history :
          ~(/\ ledger.history[i].type = "AccountOpened"
            /\ ledger.history[i].ledger = ledger.id
            /\ ledger.history[i].id = number
            /\ ledger.history[i].name = name)
    THEN apply_new_events(ledger, <<AccountOpened(ledger.id, number, name, category)>>)
    ELSE Err(Opened(number))

\* an open_account that opens whatever it is asked to open
open_account_unchecked(ledger, number, name, category) ==
    apply_new_events(ledger, <<AccountOpened(ledger.id, number, name, category)>>)

\* Ledger::open_account
open_account(ledger, number, name, category) ==
    IF number \notin ledger.chart
    THEN apply_new_events(ledger, <<AccountOpened(ledger.id, number, name, category)>>)
    ELSE Err(Opened(number))

\* a close_account that closes whatever it is asked to close
close_account_unchecked(ledger, id) ==
    apply_new_events(ledger, <<AccountClosed(ledger.id, id)>>)

\* Ledger::close_account
close_account(ledger, id) ==
    IF id \in ledger.chart
    THEN apply_new_events(ledger, <<AccountClosed(ledger.id, id)>>)
    ELSE Err(NotExist)

\* a loop that looks up only the account of the first leg
RECURSIVE check_balance_loop_first_only(_, _, _, _, _)
check_balance_loop_first_only(chart, transactions, i, debit, credit) ==
    IF i > Len(transactions)
    THEN [tag |-> "Done", account_exists |-> TRUE, debit |-> debit, credit |-> credit]
    ELSE LET number == transactions[i][1]
             amount == transactions[i][2]
         IN  IF i = 1 /\ number \notin chart
             THEN [tag |-> "Done", account_exists |-> FALSE,
                   debit |-> debit, credit |-> credit]
             ELSE IF amount.kind = "Debit"
             THEN LET s == checked_add(debit, amount.amount)
                  IN  IF s.some
                      THEN check_balance_loop_first_only(chart, transactions, i + 1,
                                                         s.val, credit)
                      ELSE Panic
             ELSE LET s == checked_add(credit, amount.amount)
                  IN  IF s.some
                      THEN check_balance_loop_first_only(chart, transactions, i + 1,
                                                         debit, s.val)
                      ELSE Panic

\* the loop of Ledger::check_balance from leg i on, with the running
\* (debit, credit) partition; stops at the first account not in the chart,
\* panics when a checked_add overflows
RECURSIVE check_balance_loop(_, _, _, _, _)
check_balance_loop(chart, transactions, i, debit, credit) ==
    IF i > Len(transactions)
    THEN [tag |-> "Done", account_exists |-> TRUE, debit |-> debit, credit |-> credit]
    ELSE LET number == transactions[i][1]
             amount == transactions[i][2]
         IN  IF number \notin chart
             THEN [tag |-> "Done", account_exists |-> FALSE,
                   debit |-> debit, credit |-> credit]
             ELSE IF amount.kind = "Debit"
             THEN LET s == checked_add(debit, amount.amount)
                  IN  IF s.some
                      THEN check_balance_loop(chart, transactions, i + 1, s.val, credit)
                      ELSE Panic
             ELSE LET s == checked_add(credit, amount.amount)
                  IN  IF s.some
                      THEN check_balance_loop(chart, transactions, i + 1, debit, s.val)
                      ELSE Panic

\* a check_balance that never reports an imbalance
check_balance_no_imbalance(ledger, transactions) ==
    LET r == check_balance_loop(ledger.chart, transactions, 1, U32Zero, U32Zero)
    IN  IF r.tag = "Panic"
        THEN Panic
        ELSE IF ~r.account_exists
        THEN Err(AccountDoesntExist)
        ELSE OkUnit

\* Ledger::check_balance
check_balance(ledger, transactions) ==
    LET r == check_balance_loop(ledger.chart, transactions, 1, U32Zero, U32Zero)
    IN  IF r.tag = "Panic"
        THEN Panic
        ELSE IF ~r.account_exists
        THEN Err(AccountDoesntExist)
        ELSE IF r.debit # r.credit
        THEN Err(ImbalancedTranasactions)
        ELSE OkUnit

\* Ledger::transaction
transaction(ledger, description, transactions, date) ==
    IF ~(Len(transactions) > 0)
    THEN Err(EmptyTransaction)
    ELSE LET r == check_balance(ledger, transactions)
         IN  IF r.tag = "Ok"
             THEN apply_new_events(ledger,
                      <<Transaction(ledger.id, description, date, transactions)>>)
             ELSE r

(***************************************************************************)
(* The command handler.  Each action is one call of process_message on the *)
(* mailbox task: read the log, rebuild the aggregate, run the command,     *)
(* extend the store on success, hand the result to send_reply.             *)
(***************************************************************************)
\* Responder: Option<oneshot::Sender<Result<T, E>>>
Responders == {"None", "Some"}

\* CommandHandler::send_reply: the reply is sent only on a Some channel
send_reply(reply_channel, r) == IF reply_channel = "Some" THEN r ELSE NoReply

\* the tail shared by the four handlers: on Ok the new events are cloned
\* into the store, then the result goes to send_reply; a panic unwinds the
\* task before either happens
Complete(m, r) ==
    /\ msg' = m
    /\ reply' = IF r.tag = "Ok" THEN OkUnit ELSE r
    /\ data' = IF r.tag = "Ok" THEN extend(data, r.val) ELSE data
    /\ delivered' = IF r.tag = "Panic"
                    THEN NoReply
                    ELSE send_reply(m.reply_channel, reply')
    /\ actor' = IF r.tag = "Panic" THEN "Panicked" ELSE "Replied"
    /\ UNCHANGED <<call, ret>>
    /\ UNCHANGED <<mailbox, journal, projection, books>>

CreateLedgerMsg(id, rc) == [type |-> "CreateLedger", id |-> id, reply_channel |-> rc]

CreateAccountMsg(l, n, nm, c, rc) ==
    [type |-> "CreateAccount", ledger |-> l, id |-> n, description |-> nm,
     category |-> c, reply_channel |-> rc]

CloseAccountMsg(l, n, rc) ==
    [type |-> "CloseAccount", ledger |-> l, id |-> n, reply_channel |-> rc]

TransactionMsg(l, d, legs, dt, rc) ==
    [type |-> "Transaction", ledger |-> l, description |-> d,
     transactions |-> legs, date |-> dt, reply_channel |-> rc]

\* CommandHandler::process_create_ledger
process_create_ledger(id, reply_channel) ==
    LET resolver == LedgerResolver_new(data)
    IN  Complete(CreateLedgerMsg(id, reply_channel), LedgerResolver_create(resolver, id))

\* CommandHandler::process_create_account_message
process_create_account_message(ledger, id, description, category, reply_channel) ==
    LET l == Ledger_new(ledger, data)
        r == IF l.some
             THEN open_account(l.val, id, description, category)
             ELSE Err(AccountLedgerDoesnExist)
    IN  Complete(CreateAccountMsg(ledger, id, description, category, reply_channel), r)

\* CommandHandler::process_close_account
process_close_account(ledger, id, reply_channel) ==
    LET l == Ledger_new(ledger, data)
        r == IF l.some
             THEN close_account(l.val, id)
             ELSE Err(AccountLedgerDoesnExist)
    IN  Complete(CloseAccountMsg(ledger, id, reply_channel), r)

\* CommandHandler::process_transaction_message
process_transaction_message(ledger, description, transactions, date, reply_channel) ==
    LET l == Ledger_new(ledger, data)
        r == IF l.some
             THEN transaction(l.val, description, transactions, date)
             ELSE Err(TransactionLedgerDoesnExist)
    IN  Complete(TransactionMsg(ledger, description, transactions, date, reply_channel), r)

\* the mailbox task is parked in receiver.recv() and the log has room
CanProcess == actor = "Idle" /\ Len(data) < MaxLog

\* process_message, one arm per Message variant
CreateLedger ==
    /\ CanProcess
    /\ \E id \in Ledgers, rc \in Responders : process_create_ledger(id, rc)

CreateAccount ==
    /\ CanProcess
    /\ \E l \in Ledgers, n \in Numbers, nc \in AccountDetails, rc \in Responders :
           process_create_account_message(l, n, nc[1], nc[2], rc)

CloseAccount ==
    /\ CanProcess
    /\ \E l \in Ledgers, n \in Numbers, rc \in Responders :
           process_close_account(l, n, rc)

RecordTransaction ==
    /\ CanProcess
    /\ \E l \in Ledgers, d \in Descriptions, legs \in LegLists, dt \in Dates,
          rc \in Responders :
           process_transaction_message(l, d, legs, dt, rc)

\* the loop of the mailbox task comes back to receiver.recv(): the message
\* and its reply destination are gone, the store is kept
Recv ==
    /\ actor = "Replied"
    /\ actor' = "Idle"
    /\ msg' = NoMsg
    /\ reply' = NoReply
    /\ delivered' = NoReply
    /\ UNCHANGED <<data, call, ret>>
    /\ UNCHANGED <<mailbox, journal, projection, books>>

(***************************************************************************)
(* The store driven directly (tests/event_producer.rs): append and evolve  *)
(* with a producer closure.  These callers use the events of               *)
(* cqrs/src/behaviour/mod.rs, an AccountOpened without a ledger.           *)
(***************************************************************************)
AccountOpenedV0(n, nm, c) ==
    [type |-> "AccountOpened", id |-> n, name |-> nm, category |-> c]

StoreEvents == {AccountOpenedV0(n, nc[1], nc[2]) : n \in Numbers, nc \in AccountDetails}

\* behaviour::AccountError::AccountAlreadyOpened(id)
AccountAlreadyOpened(n) == [e |-> "AccountAlreadyOpened", number |-> n]

\* behaviour::open_account: a producer that fails when the snapshot already
\* holds an AccountOpened with this id
behaviour_open_account(id, name, category, events) ==
    IF \E i \in DOMAIN events : events[i].type = "AccountOpened" /\ events[i].id = id
    THEN Err(AccountAlreadyOpened(id))
    ELSE Ok(<<AccountOpenedV0(id, name, category)>>)

\* producers that cannot fail: the constant closure add_event of the test,
\* and a closure returning a copy of the snapshot it is given
InfallibleProducers == {[fn |-> "add_event"], [fn |-> "snapshot"]}

\* producers that can fail: |e| behaviour::open_account(id, name, category, e)
FallibleProducers ==
    {[fn |-> "open_account", id |-> n, name |-> nc[1], category |-> nc[2]] :
        n \in Numbers, nc \in AccountDetails}

\* producer(&self.data)
producer_call(producer, events) ==
    CASE producer.fn = "add_event" ->
            Ok(<<AccountOpenedV0(101, "Bank Account", "Asset")>>)
      [] producer.fn = "snapshot" -> Ok(events)
      [] producer.fn = "open_account" ->
            behaviour_open_account(producer.id, producer.name, producer.category, events)

\* InMemoryStore::append
append(d, event) == Append(d, event)

\* an evolve that pushes one event where it should extend by all of them
evolve_first_only(d, producer) ==
    LET new_events == producer_call(producer, d).val
    IN  [data |-> IF new_events = <<>> THEN d ELSE Append(d, Head(new_events)),
         ret |-> OkUnit]

\* InMemoryStore::evolve, producer: Fn(&[T]) -> Vec<T>
evolve(d, producer) ==
    LET new_events == producer_call(producer, d).val
    IN  [data |-> extend(d, new_events), ret |-> OkUnit]

\* an evolve that swallows the producer's error
evolve_fallible_swallow(d, producer) ==
    LET r == producer_call(producer, d)
    IN  IF r.tag = "Ok"
        THEN [data |-> extend(d, r.val), ret |-> OkUnit]
        ELSE [data |-> d, ret |-> OkUnit]

\* evolve for a producer returning Result<Vec<T>, E>: append on Ok,
\* hand the error back on Err
evolve_fallible(d, producer) ==
    LET r == producer_call(producer, d)
    IN  IF r.tag = "Ok"
        THEN [data |-> extend(d, r.val), ret |-> OkUnit]
        ELSE [data |-> d, ret |-> r]

StoreAppend ==
    \E event \in StoreEvents :
        /\ Len(data) < MaxStore
        /\ data' = append(data, event)
        /\ call' = [fn |-> "append", event |-> event]
        /\ ret' = NoReply
        /\ UNCHANGED <<actor, msg, reply, delivered>>
        /\ UNCHANGED <<mailbox, journal, projection, books>>

StoreEvolve ==
    \E producer \in InfallibleProducers :
        LET r == evolve(data, producer)
        IN  /\ Len(r.data) <= MaxStore
            /\ data' = r.data
            /\ call' = [fn |-> "evolve", producer |-> producer]
            /\ ret' = r.ret
            /\ UNCHANGED <<actor, msg, reply, delivered>>
            /\ UNCHANGED <<mailbox, journal, projection, books>>

StoreEvolveFallible ==
    \E producer \in FallibleProducers :
        LET r == evolve_fallible(data, producer)
        IN  /\ Len(r.data) <= MaxStore
            /\ data' = r.data
            /\ call' = [fn |-> "evolve", producer |-> producer]
            /\ ret' = r.ret
            /\ UNCHANGED <<actor, msg, reply, delivered>>
            /\ UNCHANGED <<mailbox, journal, projection, books>>

(***************************************************************************)
(* The Journal aggregate (write/journal.rs).  Its events are an            *)
(* AccountOpened without a ledger, AccountClosed(id), the journal header   *)
(* and one Transaction per leg; JournalId is u32.                          *)
(***************************************************************************)
AccountClosedV0(n) == [type |-> "AccountClosed", id |-> n]

JournalEvent(id, description, date) ==
    [type |-> "Journal", id |-> id, description |-> description, date |-> date]

TransactionV0(account, amount, id) ==
    [type |-> "Transaction", account |-> account, amount |-> amount, journal |-> id]

JournalLimitReached == [e |-> "JournalLimitReached"]

InvalidTransaction == [e |-> "InvalidTransaction"]

\* #[derive(Default)] of Journal
Journal_default == [current_id |-> U32Zero, accounts |-> {}, history |-> <<>>]

\* Ord::max on u32
u32_max(a, b) == IF a.hi > b.hi \/ (a.hi = b.hi /\ a.lo >= b.lo) THEN a ELSE b

\* an apply that ignores the journal headers
RECURSIVE Journal_apply_no_id(_, _)
Journal_apply_no_id(self, events) ==
    IF events = <<>> THEN self
    ELSE LET e == Head(events)
             next == CASE e.type = "AccountOpened" ->
                              [self EXCEPT !.accounts = @ \cup {e.id}]
                       [] e.type = "AccountClosed" ->
                              [self EXCEPT !.accounts = @ \ {e.id}]
                       [] OTHER -> self
         IN  Journal_apply_no_id(next, Tail(events))

\* Journal::apply
RECURSIVE Journal_apply(_, _)
Journal_apply(self, events) ==
    IF events = <<>> THEN self
    ELSE LET e == Head(events)
             next == CASE e.type = "AccountOpened" ->
                              [self EXCEPT !.accounts = @ \cup {e.id}]
                       [] e.type = "AccountClosed" ->
                              [self EXCEPT !.accounts = @ \ {e.id}]
                       [] e.type = "Journal" ->
                              [self EXCEPT !.current_id = u32_max(@, e.id)]
                       [] OTHER -> self
         IN  Journal_apply(next, Tail(events))

\* Journal::new
Journal_new(history) ==
    Journal_apply([current_id |-> U32Zero, accounts |-> {}, history |-> history],
                  history)

\* an id counter that wraps around at 2^32
next_id_wrapping(current) == Ok(wrapping_add(current, U32(0, 1)).val)

\* next_id: current.checked_add(1).ok_or(JournalLimitReached)
next_id(current) ==
    LET r == checked_add(current, U32(0, 1))
    IN  IF r.some THEN Ok(r.val) ELSE Err(JournalLimitReached)

\* an i64 as hi * LimbBase + lo, the parts signed and not normalised
I64(h, l) == [hi |-> h, lo |-> l]

i64_add(a, b) == I64(a.hi + b.hi, a.lo + b.lo)

i64_is_zero(a) == a.lo % LimbBase = 0 /\ a.hi + (a.lo \div LimbBase) = 0

\* transcribe_amount: a Debit counts positive, a Credit negative
transcribe_amount(amount) ==
    IF amount.kind = "Debit"
    THEN I64(amount.amount.hi, amount.amount.lo)
    ELSE I64(0 - amount.amount.hi, 0 - amount.amount.lo)

\* a journal whose header comes after its legs
make_journal_header_last(id, description, transactions, date) ==
    [i \in 1..Len(transactions) |->
        TransactionV0(transactions[i][1], transactions[i][2], id)]
    \o <<JournalEvent(id, description, date)>>

\* make_journal: the header, then one Transaction per leg in the given order
make_journal(id, description, transactions, date) ==
    <<JournalEvent(id, description, date)>>
    \o [i \in 1..Len(transactions) |->
           TransactionV0(transactions[i][1], transactions[i][2], id)]

\* the for loop of Journal::entry: it stops at the first account that is
\* not in the set, and sums the legs before it
RECURSIVE entry_loop(_, _, _, _)
entry_loop(accounts, transactions, i, balance) ==
    IF i > Len(transactions)
    THEN [account_exists |-> TRUE, balance |-> balance]
    ELSE IF transactions[i][1] \notin accounts
         THEN [account_exists |-> FALSE, balance |-> balance]
         ELSE entry_loop(accounts, transactions, i + 1,
                         i64_add(balance, transcribe_amount(transactions[i][2])))

\* Journal::entry: the result and the aggregate after the call
Journal_entry(self, description, transactions, date) ==
    IF ~(Len(transactions) > 0)
    THEN [ret |-> Err(EmptyTransaction), self |-> self]
    ELSE LET checked == entry_loop(self.accounts, transactions, 1, I64(0, 0))
         IN  IF ~checked.account_exists
             THEN [ret |-> Err(InvalidTransaction), self |-> self]
             ELSE IF ~i64_is_zero(checked.balance)
             THEN [ret |-> Err(ImbalancedTranasactions), self |-> self]
             ELSE LET id == next_id(self.current_id)
                  IN  IF id.tag = "Err"
                      THEN [ret |-> id, self |-> self]
                      ELSE LET events == make_journal(id.val, description,
                                                      transactions, date)
                               applied == Journal_apply(self, events)
                               len == Len(self.history)
                               extended == [applied EXCEPT
                                               !.history = @ \o events]
                           IN  [ret |-> Ok(SubSeq(extended.history, len + 1,
                                                  Len(extended.history))),
                                self |-> extended]

(***************************************************************************)
(* The Chart aggregate of write/chart.rs: a map from account number to     *)
(* "is open", and the history.  Its events carry the ledger id "Bogus".    *)
(***************************************************************************)
\* AccountError::Closed
Closed == [e |-> "Closed"]

\* LedgerId::new("Bogus").unwrap()
Bogus == "Bogus"

\* HashMap::insert(id, value)
map_insert(map, id, value) ==
    [n \in DOMAIN map \cup {id} |-> IF n = id THEN value ELSE map[n]]

\* an apply that takes a closed account out of the map
RECURSIVE WriteChart_apply_remove(_, _)
WriteChart_apply_remove(map, events) ==
    IF events = <<>> THEN map
    ELSE LET ev == Head(events)
             next == IF ev.type = "AccountOpened"
                     THEN map_insert(map, ev.id, TRUE)
                     ELSE IF ev.type = "AccountClosed"
                     THEN [n \in DOMAIN map \ {ev.account} |-> map[n]]
                     ELSE map
         IN  WriteChart_apply_remove(next, Tail(events))

\* Chart::apply: AccountOpened enters the account as open, AccountClosed
\* marks an account that is in the map as not open
RECURSIVE WriteChart_apply(_, _)
WriteChart_apply(map, events) ==
    IF events = <<>> THEN map
    ELSE LET ev == Head(events)
             next == IF ev.type = "AccountOpened"
                     THEN map_insert(map, ev.id, TRUE)
                     ELSE IF ev.type = "AccountClosed" /\ ev.account \in DOMAIN map
                     THEN map_insert(map, ev.account, FALSE)
                     ELSE map
         IN  WriteChart_apply(next, Tail(events))

\* Chart::new
WriteChart_new(history) ==
    [data |-> WriteChart_apply(<<>>, history), history |-> history]

\* Chart::apply_new_events
WriteChart_apply_new_events(chart, events) ==
    LET self == [data |-> WriteChart_apply(chart.data, events),
                 history |-> chart.history \o events]
        index == IF Len(self.history) >= Len(events)
                 THEN Len(self.history) - Len(events) ELSE 0
    IN  OkSelf(SubSeq(self.history, index + 1, Len(self.history)), self)

\* Chart::open
WriteChart_open(chart, number, name, category) ==
    IF number \notin DOMAIN chart.data
    THEN WriteChart_apply_new_events(chart,
             <<AccountOpened(Bogus, number, name, category)>>)
    ELSE IF chart.data[number] THEN Err(Opened(number)) ELSE Err(NotExist)

\* Chart::close
WriteChart_close(chart, number) ==
    IF number \in DOMAIN chart.data /\ chart.data[number]
    THEN WriteChart_apply_new_events(chart, <<AccountClosed(Bogus, number)>>)
    ELSE Err(Closed)

\* no Chart and no Ledger built yet
NoBooks == [built |-> FALSE]

(***************************************************************************)
(* Projections (events/projections.rs): an initial state and a step        *)
(* function, folded over the events of the store.                          *)
(***************************************************************************)
NoProjection == [kind |-> "None"]

\* Chart::new()
Chart_new == <<>>

\* Chart::insert: the account under its number, replacing the one that is
\* there; the chart is a map from number to <<name, category>>
Chart_insert(chart, number, name, category) ==
    [n \in DOMAIN chart \cup {number} |->
        IF n = number THEN <<name, category>> ELSE chart[n]]

\* the step function of chart_projection
chart_update(state, event) ==
    IF event.type = "AccountOpened"
    THEN Chart_insert(state, event.id, event.name, event.category)
    ELSE state

\* Projection::new, ProjectionMut::new
Projection_new(kind, init) == [kind |-> kind, init |-> init]

\* a fold that takes the events from the newest to the oldest
RECURSIVE fold_right(_, _)
fold_right(acc, events) ==
    IF events = <<>> THEN acc
    ELSE fold_right(chart_update(acc, events[Len(events)]),
                    SubSeq(events, 1, Len(events) - 1))

\* Iterator::fold with the step function: the accumulator is stepped over
\* the items from the first to the last
RECURSIVE fold(_, _)
fold(acc, events) ==
    IF events = <<>> THEN acc
    ELSE fold(chart_update(acc, Head(events)), Tail(events))

\* the for loop of ProjectionMut::project: the step function updates the
\* clone of the initial state in place, event by event
RECURSIVE project_loop(_, _, _)
project_loop(state, events, i) ==
    IF i > Len(events) THEN state
    ELSE project_loop(chart_update(state, events[i]), events, i + 1)

\* a project that keeps the result as the initial state of the next run
project_keep_state(self, events) ==
    LET state == fold(self.init, events)
    IN  [ret |-> state, self |-> [self EXCEPT !.init = state]]

\* Projection::project (&self) and ProjectionMut::project (&mut self): the
\* result and the projection after the call
project(self, events) ==
    IF self.kind = "Projection"
    THEN [ret |-> fold(self.init, events), self |-> self]
    ELSE [ret |-> project_loop(self.init, events, 1), self |-> self]

Init ==
    /\ data = <<>>
    /\ actor = "Idle"
    /\ msg = NoMsg
    /\ reply = NoReply
    /\ delivered = NoReply
    /\ call = NoCall
    /\ ret = NoReply
    /\ queue = <<>>
    /\ handle = "Held"
    /\ snapshot = <<>>
    /\ cmds = <<>>
    /\ origin = <<>>
    /\ suspended = <<>>
    /\ journal = Journal_default
    /\ projection = NoProjection
    /\ books = NoBooks

Next ==
    \/ CreateLedger
    \/ CreateAccount
    \/ CloseAccount
    \/ RecordTransaction
    \/ Recv

Spec == Init /\ [][Next]_vars

NextStore ==
    \/ StoreAppend
    \/ StoreEvolve
    \/ StoreEvolveFallible

SpecStore == Init /\ [][NextStore]_vars

(***************************************************************************)
(* The mailbox (message_bus/src/lib.rs).  Callers post messages into the   *)
(* bounded mpsc channel through the MailboxProcessor; the spawned task     *)
(* takes them out one at a time and runs process_message on each.  A       *)
(* caller keeps the receiving end of the oneshot channel whose sender      *)
(* travels in the message, and may drop it at any time.                    *)
(***************************************************************************)
\* most messages accepted by post in one run
MaxPosts == 4

\* mpsc::channel(32)
Capacity == 32

\* MailboxProcessorError
MailboxProcessTerminated == [e |-> "MailboxProcessTerminated"]

\* legs that balance: 50 to the debit and 50 to the credit of account 101
BalancedLegs == <<<<101, Debit(U32(0, 50))>>, <<101, Credit(U32(0, 50))>>>>

\* legs whose debit total does not fit u32
OverflowingLegs == <<<<101, Debit(U32(0, 50))>>, <<101, Debit(U32Max)>>>>

\* the messages callers post: the ledger and the account set up without a
\* reply destination (default_ledger, add_default_account of the tests), and
\* the commands whose reply the caller waits for
MailboxMessages ==
    {CreateLedgerMsg("2014-q2", "None"),
     CreateAccountMsg("2014-q2", 101, "Bank account", "Asset", "None"),
     CreateAccountMsg("2014-q2", 101, "Bank account", "Asset", "Some"),
     CloseAccountMsg("2014-q2", 101, "Some"),
     TransactionMsg("2014-q2", "Grocery Shopping", BalancedLegs, "2014-05-23", "Some"),
     TransactionMsg("2014-q2", "Grocery Shopping", OverflowingLegs, "2014-05-23", "Some")}

\* a store that keeps handing out the events it handed out before
all_stale(d) == snapshot

\* InMemoryStore::all
all(d) == d

\* a channel that hands out the newest message first
recv_newest(q) ==
    IF q = <<>>
    THEN [some |-> FALSE, rest |-> q]
    ELSE [some |-> TRUE, val |-> q[Len(q)], rest |-> SubSeq(q, 1, Len(q) - 1)]

\* Receiver::recv on a channel that holds q: the oldest message, if any
recv(q) ==
    IF q = <<>>
    THEN [some |-> FALSE, rest |-> q]
    ELSE [some |-> TRUE, val |-> Head(q), rest |-> Tail(q)]

\* a channel that reports itself closed while messages are still buffered
recv_none_undrained(q, h) == h = "Dropped"

\* Receiver::recv returns None: every Sender is gone and the buffer is empty
recv_none(q, h) == h = "Dropped" /\ q = <<>>

\* a handler that runs the command only when a reply destination came
\* with it
process_message_replied_only(message, events) ==
    IF message.reply_channel = "None"
    THEN Err(NotExist)
    ELSE
    CASE message.type = "CreateLedger" ->
            LedgerResolver_create(LedgerResolver_new(events), message.id)
      [] message.type = "CreateAccount" ->
            LET l == Ledger_new(message.ledger, events)
            IN  IF l.some
                THEN open_account(l.val, message.id, message.description,
                                  message.category)
                ELSE Err(AccountLedgerDoesnExist)
      [] message.type = "CloseAccount" ->
            LET l == Ledger_new(message.ledger, events)
            IN  IF l.some
                THEN close_account(l.val, message.id)
                ELSE Err(AccountLedgerDoesnExist)
      [] message.type = "Transaction" ->
            LET l == Ledger_new(message.ledger, events)
            IN  IF l.some
                THEN transaction(l.val, message.description, message.transactions,
                                 message.date)
                ELSE Err(TransactionLedgerDoesnExist)

\* what process_message computes for message from the events it collected:
\* the result of the aggregate, with the new events on Ok
process_message(message, events) ==
    CASE message.type = "CreateLedger" ->
            LedgerResolver_create(LedgerResolver_new(events), message.id)
      [] message.type = "CreateAccount" ->
            LET l == Ledger_new(message.ledger, events)
            IN  IF l.some
                THEN open_account(l.val, message.id, message.description,
                                  message.category)
                ELSE Err(AccountLedgerDoesnExist)
      [] message.type = "CloseAccount" ->
            LET l == Ledger_new(message.ledger, events)
            IN  IF l.some
                THEN close_account(l.val, message.id)
                ELSE Err(AccountLedgerDoesnExist)
      [] message.type = "Transaction" ->
            LET l == Ledger_new(message.ledger, events)
            IN  IF l.some
                THEN transaction(l.val, message.description, message.transactions,
                                 message.date)
                ELSE Err(TransactionLedgerDoesnExist)

\* oneshot::Sender::send: the value reaches the receiver unless it was dropped
oneshot_send(rx, value) == IF rx = "Dropped" THEN NoReply ELSE value

\* the message the task is handling
Current == CHOOSE k \in DOMAIN cmds : cmds[k].state = "Handling"

\* MailboxProcessor::post while the task is alive: the message is buffered
\* (post waits while the channel is full) and post returns Ok(())
Post ==
    \E m \in MailboxMessages :
        /\ handle = "Held"
        /\ actor \in {"Idle", "Handling"}
        /\ Len(cmds) < MaxPosts
        /\ Len(queue) < Capacity
        /\ queue' = Append(queue, [seq |-> Len(cmds) + 1, message |-> m])
        /\ cmds' = Append(cmds, [message |-> m,
                                 rx |-> IF m.reply_channel = "Some"
                                        THEN "Waiting" ELSE "None",
                                 state |-> "Queued", read |-> 0, sent |-> 0,
                                 result |-> NoReply])
        /\ call' = [fn |-> "post"]
        /\ ret' = OkUnit
        /\ UNCHANGED <<data, actor, msg, reply, delivered, handle, snapshot, origin,
                       suspended, journal, projection, books>>

\* a post that reports the channel closed when the command before it was
\* rejected
PostTerminated_on_rejection ==
    /\ handle = "Held"
    /\ actor \in {"Idle", "Panicked"}
    /\ actor = "Idle" => reply.tag = "Err"
    /\ call' = [fn |-> "post"]
    /\ ret' = Err(MailboxProcessTerminated)
    /\ UNCHANGED <<data, actor, msg, reply, delivered>>
    /\ UNCHANGED <<mailbox, journal, projection, books>>

\* MailboxProcessor::post after the task died: send fails, post returns
\* MailboxProcessTerminated
PostTerminated ==
    /\ handle = "Held"
    /\ actor = "Panicked"
    /\ call' = [fn |-> "post"]
    /\ ret' = Err(MailboxProcessTerminated)
    /\ UNCHANGED <<data, actor, msg, reply, delivered>>
    /\ UNCHANGED <<mailbox, journal, projection, books>>

\* a caller drops the oneshot Receiver of a message that was not answered yet
DropReceiver ==
    \E k \in DOMAIN cmds :
        /\ cmds[k].rx = "Waiting"
        /\ cmds[k].state \in {"Queued", "Handling"}
        /\ cmds' = [cmds EXCEPT ![k].rx = "Dropped"]
        /\ UNCHANGED <<data, actor, msg, reply, delivered, call, ret,
                       queue, handle, snapshot, origin, suspended, journal, projection, books>>

\* the MailboxProcessor, and with it the only Sender, is dropped
DropMailbox ==
    /\ handle = "Held"
    /\ handle' = "Dropped"
    /\ UNCHANGED <<data, actor, msg, reply, delivered, call, ret,
                   queue, snapshot, cmds, origin, suspended, journal, projection, books>>

\* the loop: receiver.recv() hands out Some(message); process_message starts
\* and collects the events of the store
MailboxRecv ==
    /\ actor = "Idle"
    /\ recv(queue).some
    /\ LET m == recv(queue).val
       IN  /\ queue' = recv(queue).rest
           /\ msg' = m.message
           /\ snapshot' = all(data)
           /\ cmds' = [cmds EXCEPT ![m.seq].state = "Handling",
                                   ![m.seq].read = Len(snapshot')]
    /\ actor' = "Handling"
    /\ reply' = NoReply
    /\ delivered' = NoReply
    /\ UNCHANGED <<data, call, ret, handle, origin, suspended, journal, projection, books>>

\* process_message runs to its end: the aggregate is rebuilt from the
\* collected events and decides; on Ok the new events are cloned into the
\* store; the result goes to send_reply.  A panic unwinds the task instead:
\* the Receiver is dropped with the messages it buffers.
MailboxHandle ==
    /\ actor = "Handling"
    /\ LET r == process_message(msg, snapshot)
           k == Current
       IN  IF r.tag = "Panic"
           THEN /\ actor' = "Panicked"
                /\ reply' = Panic
                /\ delivered' = NoReply
                /\ queue' = <<>>
                /\ cmds' = [cmds EXCEPT ![k].state = "Panicked", ![k].result = Panic]
                /\ UNCHANGED <<data, origin>>
           ELSE /\ actor' = "Idle"
                /\ reply' = IF r.tag = "Ok" THEN OkUnit ELSE r
                /\ data' = IF r.tag = "Ok" THEN extend(data, r.val) ELSE data
                /\ origin' = origin \o [i \in 1..(Len(data') - Len(data)) |-> k]
                /\ delivered' = oneshot_send(cmds[k].rx,
                                             send_reply(msg.reply_channel, reply'))
                /\ cmds' = [cmds EXCEPT
                               ![k].state = "Done",
                               ![k].result = reply',
                               ![k].sent = IF msg.reply_channel = "Some"
                                           THEN @ + 1 ELSE @]
                /\ UNCHANGED queue
    /\ UNCHANGED <<msg, call, ret, handle, snapshot, suspended, journal, projection, books>>

\* the loop: receiver.recv() hands out None and the task ends
MailboxStop ==
    /\ actor = "Idle"
    /\ recv_none(queue, handle)
    /\ actor' = "Stopped"
    /\ UNCHANGED <<data, msg, reply, delivered, call, ret>>
    /\ UNCHANGED <<mailbox, journal, projection, books>>

NextMailbox ==
    \/ Post
    \/ PostTerminated
    \/ DropReceiver
    \/ DropMailbox
    \/ MailboxRecv
    \/ MailboxHandle
    \/ MailboxStop

SpecMailbox == Init /\ [][NextMailbox]_vars

(***************************************************************************)
(* The bounded channel under a burst of posts: more messages than the      *)
(* channel has slots, while the task keeps running.  Sender::send awaits a *)
(* permit of the channel's semaphore; the waiting sends are served oldest  *)
(* first when recv frees a slot.                                           *)
(***************************************************************************)
\* most posts beyond the capacity of the channel in one run
MaxExcess == 2

\* the message of the burst (default_ledger of the tests)
BurstMessage == CreateLedgerMsg("2014-q2", "None")

\* a permit is free and no earlier send waits for one
HasPermit == Len(queue) < Capacity /\ suspended = <<>>

\* the burst has posts left
BurstLeft == Len(cmds) + Len(suspended) < Capacity + MaxExcess

\* the message enters the channel and post returns Ok(())
Accept(m, fn) ==
    /\ queue' = Append(queue, [seq |-> Len(cmds) + 1, message |-> m])
    /\ cmds' = Append(cmds, [message |-> m,
                             rx |-> IF m.reply_channel = "Some"
                                    THEN "Waiting" ELSE "None",
                             state |-> "Queued", read |-> 0, sent |-> 0,
                             result |-> NoReply])
    /\ call' = [fn |-> fn]
    /\ ret' = OkUnit

\* MailboxProcessor::post with a free slot
PostBurst ==
    /\ handle = "Held"
    /\ BurstLeft
    /\ HasPermit
    /\ Accept(BurstMessage, "post")
    /\ UNCHANGED <<data, actor, msg, reply, delivered, handle, snapshot, origin,
                   suspended, journal, projection, books>>

\* a post that uses try_send: on a full channel the message is dropped and
\* the error is returned
PostSuspend_try_send ==
    /\ handle = "Held"
    /\ BurstLeft
    /\ ~HasPermit
    /\ call' = [fn |-> "post"]
    /\ ret' = Err(MailboxProcessTerminated)
    /\ UNCHANGED <<data, actor, msg, reply, delivered>>
    /\ UNCHANGED <<mailbox, journal, projection, books>>

\* MailboxProcessor::post on a full channel: sender.send(message).await is
\* pending, the caller is suspended with its message
PostSuspend ==
    /\ handle = "Held"
    /\ BurstLeft
    /\ ~HasPermit
    /\ suspended' = Append(suspended, BurstMessage)
    /\ UNCHANGED <<data, actor, msg, reply, delivered, call, ret,
                   queue, handle, snapshot, cmds, origin, journal, projection, books>>

\* recv freed a slot: the oldest waiting send completes and its post
\* returns Ok(())
PostResume ==
    /\ suspended # <<>>
    /\ Len(queue) < Capacity
    /\ Accept(Head(suspended), "post resumed")
    /\ suspended' = Tail(suspended)
    /\ UNCHANGED <<data, actor, msg, reply, delivered, handle, snapshot, origin,
                   journal, projection, books>>

NextQueue ==
    \/ PostBurst
    \/ PostSuspend
    \/ PostResume
    \/ MailboxRecv
    \/ MailboxHandle

SpecQueue == Init /\ [][NextQueue]_vars

\* the runtime keeps polling the spawned task and wakes a waiting send when
\* a permit is released
FairQueue ==
    /\ SpecQueue
    /\ WF_vars(MailboxRecv)
    /\ WF_vars(MailboxHandle)
    /\ WF_vars(PostResume)

(***************************************************************************)
(* The Journal driven directly (tests/journal_entry.rs): an aggregate is   *)
(* built from a log, and entries are made on it one after the other.       *)
(***************************************************************************)
\* most events in the history of the aggregate
MaxJournal == 8

\* events() of tests/journal_entry.rs
JournalBase ==
    <<AccountOpenedV0(101, "Bank account", "Asset"),
      AccountOpenedV0(501, "Groceries", "Expenses")>>

\* the events of the entry of simple_journal_entry, under the given id
StartingBalance(id) ==
    <<JournalEvent(id, "Starting Balance", "2014-05-23"),
      TransactionV0(101, Credit(U32(0, 50)), id),
      TransactionV0(501, Debit(U32(0, 50)), id)>>

\* the logs an aggregate is built from: the accounts alone, one of them
\* closed again, and the accounts with one entry whose id is 1, u32::MAX - 1
\* or u32::MAX
JournalLogs ==
    {JournalBase, JournalBase \o <<AccountClosedV0(501)>>}
    \cup {JournalBase \o StartingBalance(id) :
             id \in {U32(0, 1), U32(LimbBase - 1, LimbBase - 2), U32Max}}

JournalNew ==
    \E history \in JournalLogs :
        /\ journal' = Journal_new(history)
        /\ call' = [fn |-> "Journal::new", history |-> history]
        /\ ret' = NoReply
        /\ UNCHANGED <<data, actor, msg, reply, delivered>>
        /\ UNCHANGED <<mailbox, projection, books>>

JournalEntry ==
    \E description \in Descriptions, transactions \in LegLists, date \in Dates :
        LET r == Journal_entry(journal, description, transactions, date)
        IN  /\ Len(journal.history) + Len(transactions) + 1 <= MaxJournal
            /\ journal' = r.self
            /\ call' = [fn |-> "entry", description |-> description,
                        transactions |-> transactions, date |-> date]
            /\ ret' = r.ret
            /\ UNCHANGED <<data, actor, msg, reply, delivered>>
            /\ UNCHANGED <<mailbox, projection, books>>

NextJournal ==
    \/ JournalNew
    \/ JournalEntry

SpecJournal == Init /\ [][NextJournal]_vars

(***************************************************************************)
(* A projection over the store (tests/chart_projection.rs): events are     *)
(* appended, a projection is built and run, possibly several times.        *)
(***************************************************************************)
\* most runs of project in a row
MaxRuns == 2

\* the initial states given to a projection: the empty chart, and a chart
\* that holds account 101 already
ProjectionInits ==
    {Chart_new, Chart_insert(Chart_new, 101, "Cash Account", "Asset")}

ProjectionNew ==
    \E kind \in {"Projection", "ProjectionMut"}, init \in ProjectionInits :
        /\ projection' = Projection_new(kind, init)
        /\ call' = [fn |-> "Projection::new"]
        /\ ret' = NoReply
        /\ UNCHANGED <<data, actor, msg, reply, delivered>>
        /\ UNCHANGED <<mailbox, journal, books>>

ProjectRun ==
    LET r == project(projection, data)
        run == IF call.fn = "project" THEN call.run + 1 ELSE 1
    IN  /\ projection # NoProjection
        /\ run <= MaxRuns
        /\ projection' = r.self
        /\ call' = [fn |-> "project", run |-> run]
        /\ ret' = Ok(r.ret)
        /\ UNCHANGED <<data, actor, msg, reply, delivered>>
        /\ UNCHANGED <<mailbox, journal, books>>

NextProjection ==
    \/ StoreAppend
    \/ ProjectionNew
    \/ ProjectRun

SpecProjection == Init /\ [][NextProjection]_vars

(***************************************************************************)
(* Stream identifiers (identifier.rs, stream.rs).  A string is a sequence  *)
(* of characters; the alphabet has a letter, the underscore, the           *)
(* separator, a whitespace character and a character no identifier holds.  *)
(***************************************************************************)
\* most characters of an input string
MaxStr == 2

Chars == {"a", "_", ".", " ", "%"}

\* the input strings: every short string, and one with a separator between
\* two letters
Strings == SeqsUpTo(Chars, MaxStr) \cup {<<"a", ".", "a">>}

\* char::is_alphanumeric
is_alphanumeric(x) == x = "a"

\* char::is_whitespace
is_whitespace(x) == x = " "

\* Identifier::new
Identifier_new(identifier) ==
    IF Len(identifier) = 0 THEN None
    ELSE IF \A i \in DOMAIN identifier :
                is_alphanumeric(identifier[i]) \/ identifier[i] = "_"
         THEN Some(identifier)
         ELSE None

\* Stream::new
Stream_new(schema, category, id) ==
    [schema |-> schema, category |-> Some(category), id |-> Some(id)]

\* str::trim: the string without its leading and trailing whitespace
RECURSIVE trim(_)
trim(s) ==
    IF s = <<>> THEN s
    ELSE IF is_whitespace(Head(s)) THEN trim(Tail(s))
    ELSE IF is_whitespace(s[Len(s)]) THEN trim(SubSeq(s, 1, Len(s) - 1))
    ELSE s

\* str::split('.'): the parts between the separators, at least one
RECURSIVE split(_, _)
split(s, part) ==
    IF s = <<>> THEN <<part>>
    ELSE IF Head(s) = "." THEN <<part>> \o split(Tail(s), <<>>)
    ELSE split(Tail(s), Append(part, Head(s)))

\* <Stream as FromStr>::from_str
Stream_from_str(s) ==
    LET parts == split(trim(s), <<>>)
        ids == [i \in DOMAIN parts |-> Identifier_new(parts[i])]
    IN  IF \E i \in DOMAIN ids : ~ids[i].some
        THEN Err("InvalidStream")
        ELSE Ok([schema |-> ids[1].val,
                 category |-> IF Len(ids) >= 2 THEN Some(ids[2].val) ELSE None,
                 id |-> IF Len(ids) >= 3 THEN Some(ids[3].val) ELSE None])

\* Result::ok
ok(r) == IF r.tag = "Ok" THEN Some(r.val) ELSE None

\* [a, b, c].join(".")
join(input) == input[1] \o <<".">> \o input[2] \o <<".">> \o input[3]

\* the two sides of parse_and_new_gives_equal_types
parse_and_new(input) ==
    LET ids == [i \in 1..3 |-> Identifier_new(input[i])]
    IN  [stream_new |-> IF \A i \in 1..3 : ids[i].some
                        THEN Some(Stream_new(ids[1].val, ids[2].val, ids[3].val))
                        ELSE None,
         stream_parse |-> ok(Stream_from_str(join(input)))]

\* the inputs: every triple of strings
InitStream ==
    /\ \E input \in Strings \X Strings \X Strings :
           call = [fn |-> "input", input |-> input]
    /\ data = <<>>
    /\ actor = "Idle"
    /\ msg = NoMsg
    /\ reply = NoReply
    /\ delivered = NoReply
    /\ ret = NoReply
    /\ queue = <<>>
    /\ handle = "Held"
    /\ snapshot = <<>>
    /\ cmds = <<>>
    /\ origin = <<>>
    /\ suspended = <<>>
    /\ journal = Journal_default
    /\ projection = NoProjection
    /\ books = NoBooks

StreamParseAndNew ==
    /\ call.fn = "input"
    /\ call' = [fn |-> "parse_and_new", input |-> call.input]
    /\ ret' = parse_and_new(call.input)
    /\ UNCHANGED <<data, actor, msg, reply, delivered>>
    /\ UNCHANGED <<mailbox, journal, projection, books>>

NextStream == StreamParseAndNew

SpecStream == InitStream /\ [][NextStream]_vars

(***************************************************************************)
(* LedgerId::new (write/ledger.rs) on strings over a letter, a digit, the  *)
(* two punctuation characters an id may hold, a character it may not hold  *)
(* and a letter outside ASCII.                                             *)
(***************************************************************************)
\* most characters of a ledger id given to LedgerId::new
MaxIdLen == 3

LedgerIdChars == {"a", "0", "_", "-", "%", "é"}

LedgerIdStrings == SeqsUpTo(LedgerIdChars, MaxIdLen)

\* char::is_ascii_alphanumeric
is_ascii_alphanumeric(x) == x \in {"a", "0"}

\* a constructor that checks the first character like the following ones
LedgerId_new_any_start(id) ==
    IF id # <<>>
       /\ \A i \in 1..Len(id) : is_ascii_alphanumeric(id[i]) \/ id[i] \in {"_", "-"}
    THEN Some(id)
    ELSE None

\* LedgerId::new: starts_with an ASCII alphanumeric, then every character
\* after the first is ASCII alphanumeric, '_' or '-'
LedgerId_new(id) ==
    IF id # <<>> /\ is_ascii_alphanumeric(Head(id))
    THEN IF \A i \in 2..Len(id) :
                is_ascii_alphanumeric(id[i]) \/ id[i] \in {"_", "-"}
         THEN Some(id)
         ELSE None
    ELSE None

InitLedgerId ==
    /\ \E id \in LedgerIdStrings : call = [fn |-> "input", id |-> id]
    /\ data = <<>>
    /\ actor = "Idle"
    /\ msg = NoMsg
    /\ reply = NoReply
    /\ delivered = NoReply
    /\ ret = NoReply
    /\ queue = <<>>
    /\ handle = "Held"
    /\ snapshot = <<>>
    /\ cmds = <<>>
    /\ origin = <<>>
    /\ suspended = <<>>
    /\ journal = Journal_default
    /\ projection = NoProjection
    /\ books = NoBooks

LedgerIdNew ==
    /\ call.fn = "input"
    /\ call' = [fn |-> "LedgerId::new", id |-> call.id]
    /\ ret' = LedgerId_new(call.id)
    /\ UNCHANGED <<data, actor, msg, reply, delivered>>
    /\ UNCHANGED <<mailbox, journal, projection, books>>

NextLedgerId == LedgerIdNew

SpecLedgerId == InitLedgerId /\ [][NextLedgerId]_vars

(***************************************************************************)
(* Aggregates built from logs that were written with the store's append,   *)
(* which takes any event in any order.                                     *)
(***************************************************************************)
\* most events of a log written with append
MaxReplay == 4

\* the events of the ledgers: a ledger created, an account opened or closed
ReplayEvents ==
    {LedgerCreated(l) : l \in Ledgers}
    \cup {AccountOpened(l, n, "Bank account", "Asset") : l \in Ledgers, n \in Numbers}
    \cup {AccountClosed(l, n) : l \in Ledgers, n \in Numbers}

ReplayAppend ==
    \E event \in ReplayEvents :
        /\ Len(data) < MaxReplay
        /\ data' = append(data, event)
        /\ call' = [fn |-> "append", event |-> event]
        /\ ret' = NoReply
        /\ UNCHANGED <<actor, msg, reply, delivered>>
        /\ UNCHANGED <<mailbox, journal, projection, books>>

LedgerNew ==
    \E id \in Ledgers :
        /\ call' = [fn |-> "Ledger::new", id |-> id]
        /\ ret' = Ledger_new(id, data)
        /\ UNCHANGED <<data, actor, msg, reply, delivered>>
        /\ UNCHANGED <<mailbox, journal, projection, books>>

NextReplay ==
    \/ ReplayAppend
    \/ LedgerNew

SpecReplay == Init /\ [][NextReplay]_vars

(***************************************************************************)
(* A Chart and a Ledger built empty and given the same open and close      *)
(* commands, one after the other.                                          *)
(***************************************************************************)
\* most events in the history of the Ledger driven beside the Chart
MaxBooks == 5

\* the result without the aggregate it left behind
result_of(r) == IF r.tag = "Ok" THEN Ok(r.val) ELSE r

\* the aggregate after a &mut self method: changed only by a success
self_after(r, self) == IF r.tag = "Ok" THEN r.self ELSE self

BooksNew ==
    \E id \in Ledgers :
        /\ books = NoBooks
        /\ books' = [built |-> TRUE,
                     chart |-> WriteChart_new(<<>>),
                     ledger |-> Ledger_new(id, <<LedgerCreated(id)>>).val]
        /\ call' = [fn |-> "new"]
        /\ ret' = NoReply
        /\ UNCHANGED <<data, actor, msg, reply, delivered>>
        /\ UNCHANGED <<mailbox, journal, projection>>

BooksOpen ==
    \E number \in Numbers, details \in AccountDetails :
        LET c == WriteChart_open(books.chart, number, details[1], details[2])
            l == open_account(books.ledger, number, details[1], details[2])
        IN  /\ books.built
            /\ Len(books.ledger.history) < MaxBooks
            /\ books' = [built |-> TRUE,
                         chart |-> self_after(c, books.chart),
                         ledger |-> self_after(l, books.ledger)]
            /\ call' = [fn |-> "open", number |-> number]
            /\ ret' = [chart |-> result_of(c), ledger |-> result_of(l)]
            /\ UNCHANGED <<data, actor, msg, reply, delivered>>
            /\ UNCHANGED <<mailbox, journal, projection>>

BooksClose ==
    \E number \in Numbers :
        LET c == WriteChart_close(books.chart, number)
            l == close_account(books.ledger, number)
        IN  /\ books.built
            /\ Len(books.ledger.history) < MaxBooks
            /\ books' = [built |-> TRUE,
                         chart |-> self_after(c, books.chart),
                         ledger |-> self_after(l, books.ledger)]
            /\ call' = [fn |-> "close", number |-> number]
            /\ ret' = [chart |-> result_of(c), ledger |-> result_of(l)]
            /\ UNCHANGED <<data, actor, msg, reply, delivered>>
            /\ UNCHANGED <<mailbox, journal, projection>>

NextBooks ==
    \/ BooksNew
    \/ BooksOpen
    \/ BooksClose

SpecBooks == Init /\ [][NextBooks]_vars

(***************************************************************************)
(* The aggregates that are rebuilt from a log and then take one command:   *)
(* a run either sends commands to the handler, which builds a              *)
(* LedgerResolver or a Ledger for each, or builds a Journal from a log and *)
(* makes one entry on it.                                                  *)
(***************************************************************************)
\* the handler has not run
NoCommand == data = <<>> /\ actor = "Idle" /\ msg = NoMsg

NextIncremental ==
    \/ call = NoCall /\ Next
    \/ NoCommand /\ JournalNew
    \/ NoCommand /\ call.fn = "Journal::new" /\ JournalEntry

SpecIncremental == Init /\ [][NextIncremental]_vars

(***************************************************************************)
(* The ledger_ids projection (projections/mod.rs) beside the               *)
(* LedgerResolver, on logs written with append and with create.            *)
(***************************************************************************)
\* a step that keeps only the ledger created last
ledger_ids_latest(state, item) ==
    IF item.type = "LedgerCreated" THEN {item.id} ELSE state

\* ledger_ids: the step function that collects the ids of LedgerCreated
ledger_ids(state, item) ==
    IF item.type = "LedgerCreated" THEN state \cup {item.id} ELSE state

\* Projection::project with ledger_ids as the step function
RECURSIVE project_ledger_ids(_, _)
project_ledger_ids(acc, events) ==
    IF events = <<>> THEN acc
    ELSE project_ledger_ids(ledger_ids(acc, Head(events)), Tail(events))

\* LedgerResolver::create on the resolver built from the log, the store
\* extended on success as process_create_ledger does
ResolverCreate ==
    \E id \in Ledgers :
        LET r == LedgerResolver_create(LedgerResolver_new(data), id)
        IN  /\ Len(data) < MaxReplay
            /\ data' = IF r.tag = "Ok" THEN extend(data, r.val) ELSE data
            /\ call' = [fn |-> "create", id |-> id]
            /\ ret' = result_of(r)
            /\ UNCHANGED <<actor, msg, reply, delivered>>
            /\ UNCHANGED <<mailbox, journal, projection, books>>

NextResolver ==
    \/ ReplayAppend
    \/ ResolverCreate

SpecResolver == Init /\ [][NextResolver]_vars

(***************************************************************************)
(* Properties.                                                             *)
(***************************************************************************)
IsPrefix(a, b) == Len(a) <= Len(b) /\ SubSeq(b, 1, Len(a)) = a

C2_EvolveAppendsInOrder ==
    [][(call'.fn = "evolve" /\ producer_call(call'.producer, data).tag = "Ok")
        => (/\ data' = data \o producer_call(call'.producer, data).val
            /\ ret' = OkUnit)]_vars

\* an evolve that appended two different events computed from the snapshot
C2_Witness ==
    /\ call = [fn |-> "evolve", producer |-> [fn |-> "snapshot"]]
    /\ ret = OkUnit
    /\ Len(data) = 4
    /\ data[3] # data[4]
    /\ <<data[3], data[4]>> = <<data[1], data[2]>>

\* C3: the log only grows at its end: across every step of the actor the
\* old log is a prefix of the new one.
C3_AppendOnly == [][IsPrefix(data, data')]_vars

\* the actor has appended to a log that already held two events
C3_Witness ==
    /\ actor = "Replied"
    /\ reply = OkUnit
    /\ Len(data) >= 3

(***************************************************************************)
(* What a log says, read off the events themselves.                        *)
(***************************************************************************)
IsOpened(ev, l, n) == ev.type = "AccountOpened" /\ ev.ledger = l /\ ev.id = n

IsClosed(ev, l, n) == ev.type = "AccountClosed" /\ ev.ledger = l /\ ev.account = n

\* the account is open at the end of log: it has an AccountOpened with no
\* AccountClosed after it
OpenIn(log, l, n) ==
    \E i \in DOMAIN log :
        /\ IsOpened(log[i], l, n)
        /\ \A j \in DOMAIN log : j > i => ~IsClosed(log[j], l, n)

LedgerIn(log, l) == \E i \in DOMAIN log : log[i] = LedgerCreated(l)

\* the total of the legs of one kind, at full width: <<high part, low limb>>
RECURSIVE SumHi(_, _, _)
SumHi(legs, kind, i) ==
    IF i > Len(legs) THEN 0
    ELSE (IF legs[i][2].kind = kind THEN legs[i][2].amount.hi ELSE 0) + SumHi(legs, kind, i + 1)

RECURSIVE SumLo(_, _, _)
SumLo(legs, kind, i) ==
    IF i > Len(legs) THEN 0
    ELSE (IF legs[i][2].kind = kind THEN legs[i][2].amount.lo ELSE 0) + SumLo(legs, kind, i + 1)

Total(legs, kind) ==
    <<SumHi(legs, kind, 1) + (SumLo(legs, kind, 1) \div LimbBase),
      SumLo(legs, kind, 1) % LimbBase>>

Balanced(legs) == Total(legs, "Debit") = Total(legs, "Credit")

AllOpen(log, l, legs) == \A i \in DOMAIN legs : OpenIn(log, l, legs[i][1])

\* a step in which the handler ran on a message
Processed == msg' # NoMsg

\* C4: every processed command either appends events and replies success,
\* or appends nothing and replies a validation error.
C4_TwoOutcomes ==
    [][Processed =>
        \/ (reply' = OkUnit /\ IsPrefix(data, data') /\ Len(data') > Len(data))
        \/ (reply'.tag = "Err" /\ data' = data)]_vars

\* C5: CreateAccount for an account that is open in its ledger is refused
\* with Opened(id) whatever its name and category, and the log stays.
C5_DuplicateOpenRefused ==
    [][(msg'.type = "CreateAccount" /\ OpenIn(data, msg'.ledger, msg'.id))
        => (reply' = Err(Opened(msg'.id)) /\ data' = data)]_vars

\* a refused CreateAccount whose name and category both differ from the
\* AccountOpened that holds the account open
C5_Witness ==
    /\ msg.type = "CreateAccount"
    /\ reply = Err(Opened(msg.id))
    /\ \E i \in DOMAIN data :
          /\ IsOpened(data[i], msg.ledger, msg.id)
          /\ data[i].name # msg.description
          /\ data[i].category # msg.category

\* C6: between two AccountOpened events of one (ledger, account) there is an
\* AccountClosed of that pair.
C6_NoDoubleOpen ==
    \A i, j \in DOMAIN data :
        (/\ i < j
         /\ data[i].type = "AccountOpened"
         /\ IsOpened(data[j], data[i].ledger, data[i].id))
        => \E k \in (i + 1)..(j - 1) : IsClosed(data[k], data[i].ledger, data[i].id)

\* an account opened, closed and opened again
C6_Witness ==
    \E i, j \in DOMAIN data :
        /\ i < j
        /\ data[i].type = "AccountOpened"
        /\ IsOpened(data[j], data[i].ledger, data[i].id)

\* C7: every Transaction event has at least one leg, and its Debit legs
\* total what its Credit legs total.
C7_TransactionsBalanced ==
    \A i \in DOMAIN data :
        data[i].type = "Transaction"
        => (Len(data[i].transactions) > 0 /\ Balanced(data[i].transactions))

\* a Transaction event between two different accounts is in the log
C7_Witness ==
    \E i \in DOMAIN data :
        /\ data[i].type = "Transaction"
        /\ Len(data[i].transactions) = 2
        /\ data[i].transactions[1][1] # data[i].transactions[2][1]

\* C8: every account a Transaction event refers to is open in that ledger
\* in the log before the event; a Transaction message that refers to an
\* account not open is refused and appends nothing.
C8_LegsOnOpenAccounts ==
    /\ [](\A i \in DOMAIN data :
            data[i].type = "Transaction"
            => AllOpen(SubSeq(data, 1, i - 1), data[i].ledger, data[i].transactions))
    /\ [][(/\ msg'.type = "Transaction"
           /\ ~AllOpen(data, msg'.ledger, msg'.transactions))
          => (reply' # OkUnit /\ data' = data)]_vars

\* a Transaction message on an account that was opened and closed again
\* has been refused
C8_Witness ==
    /\ msg.type = "Transaction"
    /\ reply = Err(AccountDoesntExist)
    /\ \E i \in DOMAIN msg.transactions, j, k \in DOMAIN data :
          /\ j < k
          /\ IsOpened(data[j], msg.ledger, msg.transactions[i][1])
          /\ IsClosed(data[k], msg.ledger, msg.transactions[i][1])

\* C9: on an existing ledger a leg list is recorded exactly when it is not
\* empty, balances and names open accounts only; otherwise the reply is the
\* error of a condition that is violated.
C9_TransactionIff ==
    [][(msg'.type = "Transaction" /\ LedgerIn(data, msg'.ledger))
        => LET legs == msg'.transactions
               valid == /\ Len(legs) > 0
                        /\ Balanced(legs)
                        /\ AllOpen(data, msg'.ledger, legs)
           IN  /\ reply' = OkUnit <=> valid
               /\ ~valid =>
                     \/ reply' = Err(EmptyTransaction) /\ Len(legs) = 0
                     \/ reply' = Err(ImbalancedTranasactions) /\ ~Balanced(legs)
                     \/ /\ reply' = Err(AccountDoesntExist)
                        /\ ~AllOpen(data, msg'.ledger, legs)]_vars

\* C10: a CreateAccount, CloseAccount or Transaction message for a ledger
\* without LedgerCreated event is refused with LedgerDoesnExist, whatever
\* else is wrong with it, and appends nothing.
C10_UnknownLedgerFirst ==
    [][(/\ msg'.type \in {"CreateAccount", "CloseAccount", "Transaction"}
        /\ ~LedgerIn(data, msg'.ledger))
        => (/\ reply' = IF msg'.type = "Transaction"
                        THEN Err(TransactionLedgerDoesnExist)
                        ELSE Err(AccountLedgerDoesnExist)
            /\ data' = data)]_vars

\* a Transaction message that is imbalanced and names an unknown account,
\* refused for its ledger
C10_Witness ==
    /\ msg.type = "Transaction"
    /\ Len(msg.transactions) = 1
    /\ reply = Err(TransactionLedgerDoesnExist)
    /\ Len(data) > 0

\* C11: CreateLedger{id} is refused with AlreadyExists exactly when the log
\* holds LedgerCreated{id}, and otherwise appends that one event; no log
\* holds two LedgerCreated events of one id.
C11_CreateLedgerUnique ==
    /\ [](\A i, j \in DOMAIN data :
            (i < j /\ data[i].type = "LedgerCreated" /\ data[j].type = "LedgerCreated")
            => data[i].id # data[j].id)
    /\ [][msg'.type = "CreateLedger"
          => /\ reply' = Err(AlreadyExists) <=> LedgerIn(data, msg'.id)
             /\ IF LedgerIn(data, msg'.id)
                THEN data' = data
                ELSE reply' = OkUnit /\ data' = Append(data, LedgerCreated(msg'.id))]_vars

\* a CreateLedger refused on a log where the ledger is not the last event
C11_Witness ==
    /\ msg.type = "CreateLedger"
    /\ reply = Err(AlreadyExists)
    /\ Len(data) >= 2
    /\ data[1] = LedgerCreated(msg.id)

\* the set of open accounts the Ledger aggregate derives for l from log
OpenAccounts(log, l) ==
    LET ledger == Ledger_new(l, log)
    IN  IF ledger.some THEN ledger.val.chart ELSE {}

\* log without the account and transaction events of the ledgers other than l
OwnEvents(log, l) ==
    SelectSeq(log, LAMBDA ev : ev.type = "LedgerCreated" \/ ev.ledger = l)

\* C12: the open accounts derived for a ledger B are those derived from the
\* log with the events of the other ledgers left out; a command addressed to
\* another ledger A leaves them as they were; a Transaction in B naming an
\* account that is open only in another ledger is not recorded.
C12_LedgerIsolation ==
    /\ [](\A b \in Ledgers : OpenAccounts(data, b) = OpenAccounts(OwnEvents(data, b), b))
    /\ [][\A b \in Ledgers :
            (/\ msg'.type \in {"CreateAccount", "CloseAccount", "Transaction"}
             /\ msg'.ledger # b)
            => OpenAccounts(data', b) = OpenAccounts(data, b)]_vars
    /\ [][(/\ msg'.type = "Transaction"
           /\ LedgerIn(data, msg'.ledger)
           /\ \E i \in DOMAIN msg'.transactions :
                 msg'.transactions[i][1] \notin OpenAccounts(data, msg'.ledger))
          => (reply' # OkUnit /\ data' = data)]_vars

\* a Transaction in one ledger on an account that is open in the other
\* ledger only has been refused
C12_Witness ==
    /\ msg.type = "Transaction"
    /\ reply = Err(AccountDoesntExist)
    /\ LedgerIn(data, msg.ledger)
    /\ \E a \in Ledgers, i \in DOMAIN msg.transactions :
          /\ a # msg.ledger
          /\ msg.transactions[i][1] \in OpenAccounts(data, a)
          /\ msg.transactions[i][1] \notin OpenAccounts(data, msg.ledger)

\* C13: on an existing ledger, CloseAccount of an account that is open
\* appends exactly one AccountClosed and succeeds; of an account that is not
\* open (never opened, or closed already) it is refused with NotExist and the
\* log stays.
C13_CloseAccount ==
    [][(msg'.type = "CloseAccount" /\ LedgerIn(data, msg'.ledger))
        => IF OpenIn(data, msg'.ledger, msg'.id)
           THEN /\ reply' = OkUnit
                /\ data' = Append(data, AccountClosed(msg'.ledger, msg'.id))
           ELSE /\ reply' = Err(NotExist)
                /\ data' = data]_vars

\* the second of two closes of one account has been refused
C13_Witness ==
    /\ msg.type = "CloseAccount"
    /\ reply = Err(NotExist)
    /\ \E i, j \in DOMAIN data :
          /\ i < j
          /\ IsOpened(data[i], msg.ledger, msg.id)
          /\ IsClosed(data[j], msg.ledger, msg.id)
          /\ \A k \in DOMAIN data : k > j => ~IsOpened(data[k], msg.ledger, msg.id)

(***************************************************************************)
(* The mailbox: what is recorded about the accepted messages.              *)
(***************************************************************************)
\* the task took the message out of the channel
Taken(c) == c.state \in {"Handling", "Done", "Panicked"}

\* nothing is left for the task to do
Quiescent == actor \in {"Panicked", "Stopped"} \/ (actor = "Idle" /\ queue = <<>>)

\* the log as the handler of c collected it
LogRead(c) == SubSeq(data, 1, c.read)

\* C14: messages are handled in the order post accepted them, one at a
\* time: when a message is taken, every message accepted before it is done
\* (decided, appended, replied to) and its events are in the log that is
\* read; the events of an earlier message precede those of a later one.
C14_FifoOneAtATime ==
    /\ \A j, k \in DOMAIN cmds :
          (j < k /\ Taken(cmds[k])) => cmds[j].state = "Done"
    /\ \A k \in DOMAIN cmds, i \in DOMAIN origin :
          (origin[i] < k /\ Taken(cmds[k])) => i <= cmds[k].read
    /\ \A i, j \in DOMAIN origin : i < j => origin[i] < origin[j]
    /\ \A i, j \in DOMAIN queue : i < j => queue[i].seq < queue[j].seq

\* two messages that were buffered together have both appended their event
\* while a third is waiting
C14_Witness ==
    /\ Len(origin) >= 2
    /\ \E k \in DOMAIN cmds :
          /\ cmds[k].state = "Queued"
          /\ \E i \in DOMAIN origin : origin[i] + 1 = k
    /\ \E k \in DOMAIN cmds : cmds[k].state = "Done" /\ cmds[k].read > 0

\* C15: while a message is being handled the log is the log its handler
\* read, however many messages callers post meanwhile; the log changes only
\* by the handler in progress appending to the log it read.
C15_AtomicCycle ==
    /\ [](actor = "Handling" => (snapshot = data /\ cmds[Current].read = Len(data)))
    /\ [][data' # data
          => (/\ actor = "Handling"
              /\ snapshot = data
              /\ IsPrefix(data, data')
              /\ \A i \in (Len(data) + 1)..Len(data') : origin'[i] = Current)]_vars

\* a handler has read a log with events while two more messages wait
C15_Witness ==
    /\ actor = "Handling"
    /\ Len(snapshot) >= 1
    /\ Len(queue) >= 2

\* C16: a message accepted with a reply destination is never replied to
\* twice, and once the task has nothing left to do it was replied to once.
C16_ExactlyOneReply ==
    \A k \in DOMAIN cmds :
        cmds[k].message.reply_channel = "Some"
        => (cmds[k].sent <= 1 /\ (Quiescent => cmds[k].sent = 1))

\* C17: of two CreateAccount messages accepted one after the other for one
\* account of an existing ledger that was not open, the first succeeds and
\* the second is refused with Opened; of two such CloseAccount messages for
\* an open account, not both succeed.
C17_RacesHaveOneWinner ==
    \A k \in DOMAIN cmds :
        LET a == cmds[k]
            b == cmds[k + 1]
        IN  (/\ k + 1 \in DOMAIN cmds
             /\ a.state = "Done" /\ b.state = "Done"
             /\ a.message.type = b.message.type
             /\ a.message.type \in {"CreateAccount", "CloseAccount"}
             /\ a.message.ledger = b.message.ledger
             /\ a.message.id = b.message.id
             /\ LedgerIn(LogRead(a), a.message.ledger))
            => /\ (/\ a.message.type = "CreateAccount"
                   /\ ~OpenIn(LogRead(a), a.message.ledger, a.message.id))
                  => (/\ a.result = OkUnit
                      /\ b.result = Err(Opened(b.message.id)))
               /\ (/\ a.message.type = "CloseAccount"
                   /\ OpenIn(LogRead(a), a.message.ledger, a.message.id))
                  => ~(a.result = OkUnit /\ b.result = OkUnit)

\* two CreateAccount messages for one account that was not open were
\* handled back to back: the first opened it, the second was refused
C17_Witness ==
    /\ \E k \in DOMAIN cmds :
          /\ k + 1 \in DOMAIN cmds
          /\ cmds[k].message.type = "CreateAccount"
          /\ cmds[k].result = OkUnit
          /\ cmds[k + 1].message.type = "CreateAccount"
          /\ cmds[k + 1].result = Err(Opened(cmds[k + 1].message.id))
    /\ \E i \in DOMAIN data : data[i].type = "AccountOpened"

\* C18: two Transaction messages accepted one after the other, balanced and
\* on open accounts of an existing ledger, are both recorded, and the two
\* records carry different ids: no two Transaction events of a ledger are
\* the same event.
C18_DistinctTransactionIds ==
    /\ \A k \in DOMAIN cmds :
          LET a == cmds[k]
              b == cmds[k + 1]
          IN  (/\ k + 1 \in DOMAIN cmds
               /\ a.state = "Done" /\ b.state = "Done"
               /\ a.message.type = "Transaction" /\ b.message.type = "Transaction"
               /\ a.message.ledger = b.message.ledger
               /\ Balanced(a.message.transactions) /\ Balanced(b.message.transactions)
               /\ AllOpen(LogRead(a), a.message.ledger, a.message.transactions)
               /\ AllOpen(LogRead(a), b.message.ledger, b.message.transactions))
              => (a.result = OkUnit /\ b.result = OkUnit)
    /\ \A i, j \in DOMAIN data :
          (/\ i < j
           /\ data[i].type = "Transaction" /\ data[j].type = "Transaction"
           /\ data[i].ledger = data[j].ledger)
          => data[i] # data[j]

\* C19: a message whose reply destination was dropped before the reply is
\* handled without ending the task and its reply goes nowhere; once the task
\* has nothing left to do, every message accepted after it is done and, if
\* it asked for a reply, was replied to.
C19_DroppedDestination ==
    \A j \in DOMAIN cmds :
        (cmds[j].rx = "Dropped" /\ Taken(cmds[j]) /\ cmds[j].state # "Handling")
        => /\ cmds[j].state = "Done"
           /\ Quiescent =>
                 \A k \in DOMAIN cmds :
                     k > j => (/\ cmds[k].state = "Done"
                               /\ cmds[k].message.reply_channel = "Some"
                                  => cmds[k].sent = 1)

\* the task has ended: the loop left on None, or a panic unwound it
Terminated == actor \in {"Stopped", "Panicked"}

\* C20: the task has ended only with the MailboxProcessor dropped, the
\* channel drained and every accepted message done; once ended it stays
\* ended, takes no message and leaves the log as it is.
C20_StoppedOnlyWhenClosed ==
    /\ [](Terminated
          => (/\ handle = "Dropped"
              /\ queue = <<>>
              /\ \A k \in DOMAIN cmds : cmds[k].state = "Done"))
    /\ [][Terminated
          => (Terminated' /\ data' = data /\ cmds' = cmds /\ queue' = queue)]_vars
    /\ [][(~Terminated /\ Terminated') => handle = "Dropped"]_vars

\* C21: post has returned MailboxProcessTerminated only with the task
\* ended; the post of every accepted message returned Ok whatever the
\* message; a validation error leaves the result of post alone and goes to
\* the reply destination of its message, if there is one to receive it.
C21_PostErrorOnlyWhenTerminated ==
    /\ [](ret = Err(MailboxProcessTerminated) => Terminated)
    /\ [][Len(cmds') > Len(cmds) => ret' = OkUnit]_vars
    /\ [][(actor = "Handling" /\ reply'.tag = "Err")
          => (/\ ret' = ret
              /\ delivered' = IF cmds[Current].rx = "Waiting"
                              THEN reply' ELSE NoReply)]_vars

\* a command was rejected by its aggregate: the caller got the error on the
\* reply destination, and post had returned Ok
C21_Witness ==
    /\ actor = "Idle"
    /\ ret = OkUnit
    /\ reply.tag = "Err"
    /\ delivered = reply
    /\ \E k \in DOMAIN cmds :
          /\ cmds[k].state = "Done"
          /\ cmds[k].rx = "Waiting"
          /\ cmds[k].result = reply
          /\ cmds[k].sent = 1

\* the total of the Debit legs or of the Credit legs does not fit u32
TotalOverflows(legs) ==
    \/ Total(legs, "Debit")[1] >= LimbBase
    \/ Total(legs, "Credit")[1] >= LimbBase

\* C23: a Transaction message whose Debit or Credit total exceeds u32::MAX
\* appends nothing, is not accepted and is not answered ImbalancedTranasactions
\* (the verdict on two totals); when its ledger exists and its accounts are
\* open, handling it ends in the panic of the overflow.
C23_NoWrapAround ==
    [][(msg'.type = "Transaction" /\ TotalOverflows(msg'.transactions))
        => (/\ data' = data
            /\ reply' # OkUnit
            /\ reply' # Err(ImbalancedTranasactions)
            /\ (/\ LedgerIn(data, msg'.ledger)
                /\ AllOpen(data, msg'.ledger, msg'.transactions))
               => reply' = Panic)]_vars

\* a Transaction whose Debit total is 50 + u32::MAX was handled on a log
\* where its account is open: nothing was appended
C23_Witness ==
    /\ msg.type = "Transaction"
    /\ TotalOverflows(msg.transactions)
    /\ AllOpen(data, msg.ledger, msg.transactions)
    /\ reply = Panic
    /\ \A i \in DOMAIN data : data[i].type # "Transaction"

\* C24: whatever message was handled, the task is back in recv afterwards;
\* while the MailboxProcessor is held the task is alive, so that post
\* accepts and the task handles what is posted.
C24_AlwaysRecoverable ==
    /\ [][(actor = "Handling" /\ actor' # "Handling") => actor' = "Idle"]_vars
    /\ [](handle = "Held" => actor \in {"Idle", "Handling"})
    /\ [](ret # Err(MailboxProcessTerminated))

\* C22: the channel never buffers more than Capacity messages; a post that
\* finds it full parks its message instead of losing it or returning an
\* error, and the parked messages enter the channel oldest first; with the
\* task running, the n-th post of a burst is eventually accepted.
C22_BoundedQueueBackpressure ==
    /\ [](Len(queue) <= Capacity)
    /\ [](ret # Err(MailboxProcessTerminated))
    /\ [][Len(suspended') > Len(suspended)
          => (/\ Len(queue) = Capacity \/ suspended # <<>>
              /\ queue' = queue /\ cmds' = cmds /\ ret' = ret)]_vars
    /\ [][Len(suspended') < Len(suspended)
          => (/\ Len(queue) < Capacity
              /\ suspended' = Tail(suspended)
              /\ cmds' = Append(cmds, cmds'[Len(cmds')])
              /\ cmds'[Len(cmds')].message = Head(suspended)
              /\ ret' = OkUnit)]_vars
    /\ \A n \in 1..(Capacity + MaxExcess) :
          [](Len(cmds) + Len(suspended) >= n => <>(Len(cmds) >= n))

\* a post that had to wait on the full channel has returned Ok, and more
\* messages than the channel holds were accepted
C22_Witness ==
    /\ call.fn = "post resumed"
    /\ ret = OkUnit
    /\ Len(cmds) > Capacity
    /\ Len(queue) = Capacity

\* the ids of the journal headers of a log
JournalIds(log) == {log[i].id : i \in {j \in DOMAIN log : log[j].type = "Journal"}}

Less32(a, b) == a.hi < b.hi \/ (a.hi = b.hi /\ a.lo < b.lo)

\* the highest id of a log, 0 when it has no journal header
HighestId(log) ==
    IF JournalIds(log) = {} THEN U32Zero
    ELSE CHOOSE m \in JournalIds(log) :
             \A x \in JournalIds(log) : x = m \/ Less32(x, m)

\* the successor of an id below u32::MAX
Succ32(a) == IF a.lo = LimbBase - 1 THEN U32(a.hi + 1, 0) ELSE U32(a.hi, a.lo + 1)

\* the accounts a log leaves open
OpenAccountsV0(log) ==
    {n \in Numbers :
        \E i \in DOMAIN log :
            /\ log[i].type = "AccountOpened" /\ log[i].id = n
            /\ \A j \in DOMAIN log :
                   j > i => ~(log[j].type = "AccountClosed" /\ log[j].id = n)}

\* legs an entry accepts: at least one, every account open, totals equal
ValidEntry(log, legs) ==
    /\ legs # <<>>
    /\ \A i \in DOMAIN legs : legs[i][1] \in OpenAccountsV0(log)
    /\ Balanced(legs)

\* C25: the id a successful entry assigns is the highest id of the history
\* plus one (1 on a history without journal headers), so it is above every
\* id used before and becomes the highest id for the next entry, whatever
\* the legs of the entry are.
C25_IdsIncreaseByOne ==
    [][(call'.fn = "entry" /\ ret'.tag = "Ok")
        => LET id == ret'.val[1].id
           IN  /\ HighestId(journal.history) # U32Max
               /\ id = Succ32(HighestId(journal.history))
               /\ \A x \in JournalIds(journal.history) : Less32(x, id)
               /\ JournalIds(journal'.history) = JournalIds(journal.history) \cup {id}
               /\ HighestId(journal'.history) = id
               /\ (JournalIds(journal.history) = {} => id = U32(0, 1))]_vars

\* the second of two entries made on one aggregate built from the accounts
\* alone got id 2
C25_Witness ==
    /\ call.fn = "entry"
    /\ ret.tag = "Ok"
    /\ ret.val[1].id = U32(0, 2)
    /\ Len(journal.history) = 8
    /\ journal.history[3] = JournalEvent(U32(0, 1), "Grocery Shopping", "2014-05-23")
    /\ journal.history[6] = ret.val[1]

\* C26: on a history whose highest id is u32::MAX an entry that is valid
\* otherwise fails with JournalLimitReached and leaves the aggregate as it
\* was; no id is 0 and the ids of a history increase, so none is used twice.
C26_JournalLimitReached ==
    /\ [][(/\ call'.fn = "entry"
           /\ HighestId(journal.history) = U32Max
           /\ ValidEntry(journal.history, call'.transactions))
          => (ret' = Err(JournalLimitReached) /\ journal' = journal)]_vars
    /\ [](U32Zero \notin JournalIds(journal.history))
    /\ [](\A i, j \in DOMAIN journal.history :
             (/\ i < j
              /\ journal.history[i].type = "Journal"
              /\ journal.history[j].type = "Journal")
             => Less32(journal.history[i].id, journal.history[j].id))

\* a balanced entry on two open accounts was refused at the limit
C26_Witness ==
    /\ call.fn = "entry"
    /\ ret = Err(JournalLimitReached)
    /\ ValidEntry(journal.history, call.transactions)
    /\ Len(call.transactions) = 2
    /\ call.transactions[1][1] # call.transactions[2][1]
    /\ HighestId(journal.history) = U32Max
    /\ journal.current_id = U32Max

\* C27: a successful entry with n legs returns n + 1 events, the header
\* with the new id and then one Transaction per leg in the submitted order
\* with that id, the leg's account and amount, and the history grows by
\* exactly these events; a failed entry returns an error and leaves the
\* aggregate as it was.
C27_EntryEventsAsOneUnit ==
    [][call'.fn = "entry"
        => IF ret'.tag = "Ok"
           THEN LET legs == call'.transactions
                    events == ret'.val
                IN  /\ Len(events) = Len(legs) + 1
                    /\ events[1].type = "Journal"
                    /\ events[1] = JournalEvent(events[1].id, call'.description,
                                                call'.date)
                    /\ \A i \in DOMAIN legs :
                           events[i + 1] = TransactionV0(legs[i][1], legs[i][2],
                                                         events[1].id)
                    /\ journal'.history = journal.history \o events
           ELSE ret'.tag = "Err" /\ journal' = journal]_vars

\* the entry of simple_journal_entry: two legs on two accounts, three events
C27_Witness ==
    /\ call.fn = "entry"
    /\ ret.tag = "Ok"
    /\ call.transactions = <<<<101, Credit(U32(0, 50))>>, <<501, Debit(U32(0, 50))>>>>
    /\ ret.val = <<JournalEvent(U32(0, 1), "Grocery Shopping", "2014-05-23"),
                   TransactionV0(101, Credit(U32(0, 50)), U32(0, 1)),
                   TransactionV0(501, Debit(U32(0, 50)), U32(0, 1))>>
    /\ journal.history = JournalBase \o ret.val

\* the left fold of the step function, taken from the end of the log: the
\* state after the events before the last one, stepped by the last one
RECURSIVE LeftFold(_, _)
LeftFold(init, log) ==
    IF log = <<>> THEN init
    ELSE chart_update(LeftFold(init, SubSeq(log, 1, Len(log) - 1)), log[Len(log)])

\* C29: project returns the left fold of the step function over the log
\* from the projection's initial state and leaves the projection and the
\* log as they were, so a second run over the same log returns the same.
C29_ProjectIsLeftFold ==
    /\ [][call'.fn = "project"
          => (/\ ret' = Ok(LeftFold(projection.init, data))
              /\ projection' = projection
              /\ data' = data)]_vars
    /\ [][(call.fn = "project" /\ call'.fn = "project") => ret' = ret]_vars

\* the second run in a row over a log in which the same account was opened
\* twice, by a projection whose initial chart is not empty
C29_Witness ==
    /\ call.fn = "project"
    /\ call.run = 2
    /\ projection.init # Chart_new
    /\ \E i, j \in DOMAIN data :
           i < j /\ data[i].id = data[j].id /\ data[i] # data[j]
    /\ ret = Ok(LeftFold(projection.init, data))

\* C30: for every triple of strings, validating the three with
\* Identifier::new and building the Stream gives what parsing the three
\* joined by "." gives.
C30_ParseEqualsNew ==
    call.fn = "parse_and_new" => ret.stream_new = ret.stream_parse

\* the strings of ^[A-Za-z0-9][A-Za-z0-9_-]*$
MatchesLedgerId(str) ==
    /\ Len(str) >= 1
    /\ str[1] \in {"a", "0"}
    /\ \A i \in DOMAIN str : i > 1 => str[i] \in {"a", "0", "_", "-"}

\* C31: LedgerId::new accepts exactly the non-empty strings that start with
\* an ASCII letter or digit and go on with ASCII letters, digits, '_' and
\* '-', and the id it returns holds the string as given.
C31_LedgerIdSyntax ==
    call.fn = "LedgerId::new"
    => (/\ ret.some <=> MatchesLedgerId(call.id)
        /\ ret.some => ret.val = call.id)

\* an id with both punctuation characters after its first was accepted
C31_Witness ==
    /\ call.fn = "LedgerId::new"
    /\ call.id = <<"0", "_", "-">>
    /\ ret = Some(call.id)

\* C32: a Transaction message on an existing ledger whose legs are not
\* empty, do not balance and name an account that is not open is answered
\* ImbalancedTranasactions.
C32_ImbalanceBeforeUnknownAccount ==
    [][(/\ msg'.type = "Transaction"
        /\ LedgerIn(data, msg'.ledger)
        /\ msg'.transactions # <<>>
        /\ ~Balanced(msg'.transactions)
        /\ ~AllOpen(data, msg'.ledger, msg'.transactions))
       => reply' = Err(ImbalancedTranasactions)]_vars

\* C33: on a log that holds LedgerCreated{id}, Ledger::new(id, log) gives
\* the accounts whose latest AccountOpened or AccountClosed event of that
\* ledger, anywhere in the log, is an AccountOpened.
C33_ReplayOpenAccounts ==
    (call.fn = "Ledger::new" /\ LedgerIn(data, call.id))
    => (/\ ret.some
        /\ ret.val.chart = {n \in Numbers : OpenIn(data, call.id, n)})

\* C34: Chart and Ledger, built empty and given the same open and close
\* commands, accept the same commands and reject the same commands.
C34_UniformReopenPolicy ==
    call.fn \in {"open", "close"} => (ret.chart.tag = ret.ledger.tag)

\* where an account number stands in a history of the Chart
Phase(history, number) ==
    LET own == {i \in DOMAIN history :
                   \/ history[i].type = "AccountOpened" /\ history[i].id = number
                   \/ history[i].type = "AccountClosed" /\ history[i].account = number}
    IN  IF own = {} THEN "Absent"
        ELSE LET last == CHOOSE i \in own : \A j \in own : j <= i
             IN  IF history[last].type = "AccountOpened" THEN "Open" ELSE "Closed"

\* C35: in the Chart an open succeeds exactly on an account that is Absent
\* and makes it Open, a close succeeds exactly on an account that is Open
\* and makes it Closed; a refused command leaves the chart as it was, and a
\* Closed account stays Closed.
C35_ChartAccountLifecycle ==
    /\ [][call'.fn = "open"
          => (/\ ret'.chart.tag = "Ok"
                 <=> Phase(books.chart.history, call'.number) = "Absent"
              /\ ret'.chart.tag = "Ok"
                 => Phase(books'.chart.history, call'.number) = "Open"
              /\ ret'.chart.tag # "Ok" => books'.chart = books.chart)]_vars
    /\ [][call'.fn = "close"
          => (/\ ret'.chart.tag = "Ok"
                 <=> Phase(books.chart.history, call'.number) = "Open"
              /\ ret'.chart.tag = "Ok"
                 => Phase(books'.chart.history, call'.number) = "Closed"
              /\ ret'.chart.tag # "Ok" => books'.chart = books.chart)]_vars
    /\ [][books.built
          => \A n \in Numbers :
                 Phase(books.chart.history, n) = "Closed"
                 => Phase(books'.chart.history, n) = "Closed"]_vars

\* an open of an account that was opened and closed before was refused
C35_Witness ==
    /\ call.fn = "open"
    /\ ret.chart = Err(NotExist)
    /\ Phase(books.chart.history, call.number) = "Closed"

\* the result of a message's command on the aggregate built from a log
CommandOn(m, log) ==
    CASE m.type = "CreateLedger" ->
             LedgerResolver_create(LedgerResolver_new(log), m.id)
      [] m.type = "CreateAccount" ->
             open_account(Ledger_new(m.ledger, log).val, m.id, m.description,
                          m.category)
      [] m.type = "CloseAccount" ->
             close_account(Ledger_new(m.ledger, log).val, m.id)
      [] m.type = "Transaction" ->
             transaction(Ledger_new(m.ledger, log).val, m.description,
                         m.transactions, m.date)

\* the aggregate of a message's command, built from a log
Replayed(m, log) ==
    IF m.type = "CreateLedger"
    THEN LedgerResolver_new(log)
    ELSE Ledger_new(m.ledger, log).val

\* C36: when a command succeeds on the aggregate built from a log and
\* returns events, the aggregate it leaves is the aggregate built from the
\* log followed by these events, and its history is the log followed by
\* them; for LedgerResolver and Ledger on the handler's logs, and for a
\* Journal over its entries.
C36_IncrementalAgreesWithReplay ==
    /\ [][(/\ msg' # NoMsg
           /\ msg'.type = "CreateLedger" \/ LedgerIn(data, msg'.ledger))
          => LET r == CommandOn(msg', data)
             IN  r.tag = "Ok"
                 => (/\ r.self = Replayed(msg', data \o r.val)
                     /\ r.self.history = data \o r.val
                     /\ data' = data \o r.val)]_vars
    /\ [](journal = Journal_new(journal.history))
    /\ [][(call'.fn = "entry" /\ ret'.tag = "Ok")
          => (/\ journal' = Journal_new(journal.history \o ret'.val)
              /\ journal'.history = journal.history \o ret'.val)]_vars

\* an account of a ledger was closed by a command, and the ledger rebuilt
\* from the log no longer holds it
C36_Witness ==
    /\ msg.type = "CloseAccount"
    /\ reply = OkUnit
    /\ data[Len(data)] = AccountClosed(msg.ledger, msg.id)
    /\ msg.id \notin Ledger_new(msg.ledger, data).val.chart
    /\ \E n \in Numbers : n \in Ledger_new(msg.ledger, data).val.chart

\* C37: in the log written by the handler every AccountOpened,
\* AccountClosed and Transaction of a ledger comes after the LedgerCreated
\* of that ledger, and every AccountClosed has an AccountOpened of its
\* account before it with no AccountClosed of that account between them.
C37_LogWellFormed ==
    /\ \A i \in DOMAIN data :
           data[i].type \in {"AccountOpened", "AccountClosed", "Transaction"}
           => \E j \in 1..(i - 1) : data[j] = LedgerCreated(data[i].ledger)
    /\ \A i \in DOMAIN data :
           data[i].type = "AccountClosed"
           => \E j \in 1..(i - 1) :
                  /\ IsOpened(data[j], data[i].ledger, data[i].account)
                  /\ \A k \in (j + 1)..(i - 1) :
                         ~IsClosed(data[k], data[i].ledger, data[i].account)

\* a ledger with an account opened, a transaction recorded on it and the
\* account closed
C37_Witness ==
    /\ Len(data) = 4
    /\ data[1].type = "LedgerCreated"
    /\ data[2].type = "AccountOpened"
    /\ data[3].type = "Transaction"
    /\ data[4] = AccountClosed(data[1].id, data[2].id)

\* C38: the events a handled command appends are those of the command on
\* the log it read, whichever reply destination the message carries and
\* whether or not the caller still holds the receiving end.
C38_ReplyDestinationIrrelevant ==
    [][(actor = "Handling" /\ actor' # "Handling")
        => \A rc \in Responders :
               LET r == process_message([msg EXCEPT !.reply_channel = rc], snapshot)
               IN  data' = IF r.tag = "Ok" THEN data \o r.val ELSE data]_vars

\* a CreateAccount whose caller had dropped the receiving end, and one sent
\* without a reply destination before it, each appended its event or was
\* refused for the log it read: the first opened the account, the one with
\* the dropped receiver found it open
C38_Witness ==
    \E j, k \in DOMAIN cmds :
        /\ cmds[j].message.type = "CreateAccount"
        /\ cmds[j].message.reply_channel = "None"
        /\ cmds[j].state = "Done"
        /\ cmds[j].result = OkUnit
        /\ \E i \in DOMAIN origin :
               origin[i] = j /\ data[i].type = "AccountOpened"
        /\ cmds[k].message = [cmds[j].message EXCEPT !.reply_channel = "Some"]
        /\ cmds[k].rx = "Dropped"
        /\ cmds[k].state = "Done"
        /\ cmds[k].result = Err(Opened(cmds[k].message.id))
        /\ delivered = NoReply

\* C39: folding ledger_ids over a log from the empty set gives the ids that
\* have a LedgerCreated event in it, and creating a ledger on that log is
\* refused with AlreadyExists exactly for the ids of that set.
C39_ProjectionAgreesWithResolver ==
    /\ [](project_ledger_ids({}, data) = {l \in Ledgers : LedgerIn(data, l)})
    /\ [][call'.fn = "create"
          => (/\ ret' = Err(AlreadyExists)
                 <=> call'.id \in project_ledger_ids({}, data)
              /\ ret'.tag = "Ok"
                 <=> call'.id \notin project_ledger_ids({}, data)
              /\ call'.id \in project_ledger_ids({}, data'))]_vars

\* a create refused for a ledger that the projection of a log with two
\* ledgers and an account event holds
C39_Witness ==
    /\ call.fn = "create"
    /\ ret = Err(AlreadyExists)
    /\ project_ledger_ids({}, data) = Ledgers
    /\ \E i \in DOMAIN data : data[i].type = "AccountOpened"

====
